---- MODULE Spec2Model ----
(***************************************************************************)
(* The Shell supervisor of axiom-ai (axiom-shell): the slot table owned by *)
(* TenantManager, the Perspective Table and audit log owned by             *)
(* WasmSupervisor, and the handlers that read and write them: the Unix     *)
(* socket deploy, /admin/perspective, /admin/retire and guest invocation.  *)
(* Every lock acquisition of a handler is one step of the task running it. *)
(***************************************************************************)
EXTENDS Naturals, FiniteSets, Sequences, TLC

\* ---------------------------------------------------------------- bounds

\* Concurrent tokio tasks serving handlers.
NumTasks == 2

\* Host-call boundaries (suspension points) of one guest invocation.
MaxRunSteps == 2

\* The capacity ceiling of deploy_kernel (runtime.rs:64).
MaxTenants == 4

Tasks == 1 .. NumTasks

\* ---------------------------------------------------------------- inputs

\* Tenants that are only ever deployed through the Unix socket, and the
\* order in which their ids first appear.
FillerIds == {"b", "c", "d"}

FillerBefore == [b |-> {}, c |-> {"b"}, d |-> {"b", "c"}]

\* Tenants that are also retired, and (TargetIds) switched and invoked.
ActiveIds == {"a", "e"}

TargetIds == {"a"}

TenantIds == FillerIds \cup ActiveIds

\* env strings posted to /admin/retire.
RetireEnvs(tid) == IF tid = "a" THEN {"GREEN", "blue"} ELSE {"green"}

\* The inputs of the handlers run one at a time.
\*   wasm:    wasm_base64 strings received on the socket for tenant "a" (two
\*            valid kernels, a string that is not base64, base64 of bytes
\*            that are no wasm module); every other tenant sends "b64:m1"
\*   targets: target strings posted to /admin/perspective
\*   ccp:     what GET /api/v1/tomains yields for (tenant, target_env): no
\*            answer, an unreadable body, a list without the tenant, a record
\*            without wasm_hashes[target_env], or a base64 string found there
SeqInputs ==
    [wasm    |-> {"b64:m1", "b64:m2", "!!", "b64:junk"},
     targets |-> {"GREEN", "blue", "RED"},
     ccp     |-> {"unreachable", "unreadable", "norecord", "nohash", "b64:m3", "!!"}]

\* The inputs of the handlers run concurrently.
ConcInputs ==
    [wasm    |-> {"b64:m1", "b64:m2"},
     targets |-> {"blue", "RED"},
     ccp     |-> {"unreachable", "norecord", "b64:m3"}]

\* The inputs of the deploys racing at the capacity ceiling.
RaceInputs ==
    [wasm    |-> {"b64:m1"},
     targets |-> {"blue"},
     ccp     |-> {"unreachable", "b64:m3"}]

\* The inputs of the handlers given an env name outside GREEN, BLUE, RED.
EnvInputs ==
    [wasm    |-> {"b64:m1"},
     targets |-> {"blue", "purple"},
     ccp     |-> {"norecord", "b64:m3"}]

SocketWasm(I, tid) == IF tid = "a" THEN I.wasm ELSE {"b64:m1"}

\* --------------------------------------------------------- pure functions

\* str::to_uppercase on the strings the handlers see.
ToUpper(s) ==
    CASE s = "green" -> "GREEN"
      [] s = "blue"  -> "BLUE"
      [] s = "red"   -> "RED"
      [] s = "purple" -> "PURPLE"
      [] OTHER       -> s

\* BASE64.decode: the bytes, or "DecodeError".
Base64Decode(s) ==
    CASE s = "b64:m1"   -> "wasm:m1"
      [] s = "b64:m2"   -> "wasm:m2"
      [] s = "b64:m3"   -> "wasm:m3"
      [] s = "b64:junk" -> "junk"
      [] OTHER          -> "DecodeError"

\* Module::new: the compiled module, or "CompileError".
ModuleNew(bytes) ==
    CASE bytes = "wasm:m1" -> "m1"
      [] bytes = "wasm:m2" -> "m2"
      [] bytes = "wasm:m3" -> "m3"
      [] OTHER             -> "CompileError"

\* Option::None of get_tenant.
NoInstance == [id |-> "", module |-> ""]

TenantInstance(id, module) == [id |-> id, module |-> module]

EmptyMap == [x \in {} |-> x]

\* No store: the task is not inside an invocation.
NoStore == [fuel |-> 0, data |-> "", input |-> "", dirty |-> FALSE]

\* A request without an Authorization header.
NoAuth == [scheme |-> "none", signer |-> "", exp |-> ""]

\* ~/.axiom/session.json absent or unreadable.
NoFile ==
    [file |-> "none", bindings |-> EmptyMap, has_manifests |-> FALSE,
     manifests |-> EmptyMap, public_keys |-> EmptyMap, upstream |-> EmptyMap]

\* session.json holding the given public_keys and rate_limits.upstream
\* objects, no bindings and no manifests.
SessionFile(keys, limits) ==
    [NoFile EXCEPT !.file = "ok", !.public_keys = keys, !.upstream = limits]

\* f with the entries of g added or replaced.
Merge(f, g) == [k \in DOMAIN f \cup DOMAIN g |-> IF k \in DOMAIN g THEN g[k] ELSE f[k]]

Min(a, b) == IF a <= b THEN a ELSE b

Put(f, k, v) == [x \in DOMAIN f \cup {k} |-> IF x = k THEN v ELSE f[x]]

Drop(f, k) == [x \in DOMAIN f \ {k} |-> f[x]]

\* ------------------------------------------------------------------ state

VARIABLES
    tenants,      \* TenantManager.tenants: tomain_id -> (env -> TenantInstance)
    regd,         \* history: <<tomain_id, env>> -> the instance last registered
                  \* into that slot and not retired since
    perspective,  \* WasmSupervisor.perspective: tomain_id -> env
    audit_log,    \* WasmSupervisor.audit_log: tomain_id -> entries
    statuses,     \* InfraRegistry.statuses: tomain_id -> status
    task,         \* per task: the handler it runs, its position and locals
    snap,         \* the shared tables as they were when the running handler started
    granted,      \* history: the times at which the upstream bucket now held
                  \* for a tenant answered true, oldest first; under
                  \* SpecCooldown, per alias, the time of the last
                  \* report_failure that found its breaker Half-Open
    now,          \* Utc::now(), in milliseconds since the Shell started
    public_keys,  \* SecurityManager.public_keys: tomain_id -> key
    upstream_buckets,    \* TrafficController.upstream_buckets: tomain_id -> bucket
    downstream_buckets,  \* TrafficController.downstream_buckets: alias -> bucket
    breakers,     \* FaultTolerance.breakers: alias -> CircuitBreaker
    bindings,     \* EgressResolver.bindings: <<tomain_id, env, alias>> -> url
    manifests     \* EgressResolver.manifests: <<tomain_id, logical name>> -> alias

\* The state of the ResilienceManager and the clock it reads.
resilience == <<now, public_keys, upstream_buckets, downstream_buckets, breakers>>

\* The state of the EgressResolver.
egress == <<bindings, manifests>>

vars == <<tenants, regd, perspective, audit_log, statuses, task, snap, granted,
          resilience, egress>>

Tables == [tenants |-> tenants, perspective |-> perspective, audit_log |-> audit_log]

IdleTask ==
    [op |-> "none", pc |-> "idle", tid |-> "", target |-> "", wasm |-> "",
     stage |-> "", dres |-> "", ccp |-> "", env |-> "", inst |-> NoInstance,
     ran |-> NoInstance, left |-> 0, res |-> "",
     auth |-> NoAuth, cfg |-> NoFile, alias |-> "", method |-> "", attempts |-> 0,
     sent |-> 0, resp |-> "", func |-> "", query |-> "", exec |-> "",
     store |-> NoStore]

\* A handler that has returned: what it was and what it answered.
Done(t, r) ==
    [IdleTask EXCEPT !.op = t.op, !.pc = "done", !.tid = t.tid,
                     !.dres = t.dres, !.res = r]

Free(p) == task[p].pc \in {"idle", "done"}

\* --------------------------------------------------------- TenantManager

\* register_tenant keeping an occupied slot (or_insert in place of insert).
RegisterTenantKeepFirst(ten, id, env, inst) ==
    LET envs == IF id \in DOMAIN ten THEN ten[id] ELSE EmptyMap
    IN  IF ToUpper(env) \in DOMAIN envs THEN ten
        ELSE Put(ten, id, Put(envs, ToUpper(env), inst))

\* register_tenant, under the write lock: entry(id).or_insert_with(new),
\* then insert(env.to_uppercase(), instance).
RegisterTenant(ten, id, env, inst) ==
    LET envs == IF id \in DOMAIN ten THEN ten[id] ELSE EmptyMap
    IN  Put(ten, id, Put(envs, ToUpper(env), inst))

\* get_tenant, under the read lock.
GetTenant(ten, id, env) ==
    IF id \in DOMAIN ten /\ ToUpper(env) \in DOMAIN ten[id]
    THEN ten[id][ToUpper(env)]
    ELSE NoInstance

\* remove_tenant that drops the tenant with all its envs.
RemoveTenantWhole(ten, id, env) ==
    IF id \in DOMAIN ten THEN Drop(ten, id) ELSE ten

\* remove_tenant that leaves an empty env map behind.
RemoveTenantKeepEmpty(ten, id, env) ==
    IF id \in DOMAIN ten THEN Put(ten, id, Drop(ten[id], ToUpper(env))) ELSE ten

\* remove_tenant, under the write lock: drop the env, and the tenant's map
\* when that leaves it empty.
RemoveTenant(ten, id, env) ==
    IF id \in DOMAIN ten
    THEN LET envs == Drop(ten[id], ToUpper(env))
         IN  IF DOMAIN envs = {} THEN Drop(ten, id) ELSE Put(ten, id, envs)
    ELSE ten

\* GET /admin/tenants.
ListTenants(ten) == DOMAIN ten

\* get_perspective answering its default whatever the table holds.
GetPerspectiveDefault(persp, id) == "GREEN"

\* get_perspective.
GetPerspective(persp, id) == IF id \in DOMAIN persp THEN persp[id] ELSE "GREEN"

\* ------------------------------------------------------------------ Init

\* The Shell serving after main loaded the bindings b from session.json.
Booted(b) ==
    /\ tenants = EmptyMap
    /\ regd = EmptyMap
    /\ perspective = EmptyMap
    /\ audit_log = EmptyMap
    /\ statuses = {}
    /\ task = [p \in Tasks |-> IdleTask]
    /\ snap = Tables
    /\ granted = EmptyMap
    /\ now = 0
    /\ public_keys = EmptyMap
    /\ upstream_buckets = EmptyMap
    /\ downstream_buckets = EmptyMap
    /\ breakers = EmptyMap
    /\ bindings = b
    /\ manifests = EmptyMap

Init == Booted(EmptyMap)

\* ------------------------------------------------- Unix socket accept loop

\* A well-formed {tomain_id, wasm_base64}: deploy_kernel(id, "GREEN", wasm).
SocketAccept(p, tid, b64) ==
    /\ Free(p)
    /\ task' = [task EXCEPT ![p] =
            [IdleTask EXCEPT !.op = "socket", !.pc = "dk_len", !.tid = tid,
                             !.target = "GREEN", !.wasm = b64, !.stage = "sock"]]
    /\ UNCHANGED <<tenants, regd, perspective, audit_log, statuses>>

\* A message serde_json cannot read as a DeployPayload is dropped.
SocketGarbage(p) ==
    /\ Free(p)
    /\ task' = [task EXCEPT ![p] = Done([IdleTask EXCEPT !.op = "socket"], "dropped")]
    /\ UNCHANGED <<tenants, regd, perspective, audit_log, statuses>>

\* ---------------------------------------------------------- deploy_kernel

\* deploy_kernel called with the tenant's active perspective.
DeployEnvActive(t) ==
    IF t.tid \in DOMAIN perspective THEN perspective[t.tid] ELSE ToUpper(t.target)

\* The env deploy_kernel is called with.
DeployEnv(t) == IF t.stage = "sock" THEN "GREEN" ELSE ToUpper(t.target)

\* deploy_kernel has returned r to its caller: the accept loop drops the
\* result and goes on to update_perspective; update_perspective goes on
\* only after Ok (the ? operator).
AfterDeploy(t, r) ==
    IF t.stage = "sock"
    THEN [t EXCEPT !.pc = "up_get", !.stage = "cold", !.dres = r]
    ELSE IF r = "ok"
         THEN [t EXCEPT !.pc = "up_insert"]
         ELSE Done(t, r)

\* The capacity check with > in place of >=.
DkLenOffByOne(p) ==
    /\ task[p].pc = "dk_len"
    /\ LET tenant_count == Cardinality(DOMAIN tenants)
       IN  task' = [task EXCEPT ![p].pc =
               IF tenant_count > MaxTenants THEN "dk_contains" ELSE "dk_register"]
    /\ UNCHANGED <<tenants, regd, perspective, audit_log, statuses>>

\* let tenant_count = tenants.read().await.len()
DkLen(p) ==
    /\ task[p].pc = "dk_len"
    /\ LET tenant_count == Cardinality(DOMAIN tenants)
       IN  task' = [task EXCEPT ![p].pc =
               IF tenant_count >= MaxTenants THEN "dk_contains" ELSE "dk_register"]
    /\ UNCHANGED <<tenants, regd, perspective, audit_log, statuses>>

\* ... && !tenants.read().await.contains_key(tomain_id): the capacity error.
DkContains(p) ==
    /\ task[p].pc = "dk_contains"
    /\ task' = [task EXCEPT ![p] =
            IF task[p].tid \notin DOMAIN tenants
            THEN AfterDeploy(task[p], "err_capacity")
            ELSE [task[p] EXCEPT !.pc = "dk_register"]]
    /\ UNCHANGED <<tenants, regd, perspective, audit_log, statuses>>

\* BASE64.decode, then register_tenant: compile, and insert under the
\* write lock.
DkRegister(p) ==
    /\ task[p].pc = "dk_register"
    /\ LET t     == task[p]
           bytes == Base64Decode(t.wasm)
           mod   == ModuleNew(bytes)
       IN  IF bytes = "DecodeError"
           THEN /\ task' = [task EXCEPT ![p] = AfterDeploy(t, "err_decode")]
                /\ UNCHANGED <<tenants, regd>>
           ELSE IF mod = "CompileError"
           THEN /\ task' = [task EXCEPT ![p] = AfterDeploy(t, "err_compile")]
                /\ UNCHANGED <<tenants, regd>>
           ELSE /\ tenants' = RegisterTenant(tenants, t.tid, DeployEnv(t),
                                             TenantInstance(t.tid, mod))
                /\ regd' = Put(regd, <<t.tid, ToUpper(DeployEnv(t))>>,
                               TenantInstance(t.tid, mod))
                /\ task' = [task EXCEPT ![p].pc = "dk_status"]
    /\ UNCHANGED <<perspective, audit_log, statuses>>

\* registry.update_status(tomain_id, "Active")
DkStatus(p) ==
    /\ task[p].pc = "dk_status"
    /\ statuses' = statuses \cup {task[p].tid}
    /\ task' = [task EXCEPT ![p] = AfterDeploy(task[p], "ok")]
    /\ UNCHANGED <<tenants, regd, perspective, audit_log>>

\* ------------------------------------------------------ update_perspective

\* POST /admin/perspective {tomain_id, target}
PerspectiveRoute(p, tid, target) ==
    /\ Free(p)
    /\ task' = [task EXCEPT ![p] =
            [IdleTask EXCEPT !.op = "switch", !.pc = "up_get", !.tid = tid,
                             !.target = target, !.stage = "cold"]]
    /\ UNCHANGED <<tenants, regd, perspective, audit_log, statuses>>

\* if self.manager.get_tenant(tomain_id, &target_env).await.is_none()
UpGet(p) ==
    /\ task[p].pc = "up_get"
    /\ task' = [task EXCEPT ![p].pc =
            IF GetTenant(tenants, task[p].tid, ToUpper(task[p].target)) = NoInstance
            THEN "up_fetch" ELSE "up_insert"]
    /\ UNCHANGED <<tenants, regd, perspective, audit_log, statuses>>

\* The CCP fetch with its errors swallowed (if let Ok(..) in place of ?).
AfterFetchSwallow(t, outcome) ==
    LET got == [t EXCEPT !.ccp = outcome]
    IN  CASE outcome \in {"unreachable", "unreadable", "norecord", "nohash"} ->
                [got EXCEPT !.pc = "up_insert"]
          [] OTHER -> [got EXCEPT !.pc = "dk_len", !.wasm = outcome]

\* The task after the CCP answered `outcome` for its tenant and target env.
AfterFetch(t, outcome) ==
    LET got == [t EXCEPT !.ccp = outcome]
    IN  CASE outcome = "unreachable" -> [Done(t, "err_ccp") EXCEPT !.ccp = outcome]
          [] outcome = "unreadable"  -> [Done(t, "err_json") EXCEPT !.ccp = outcome]
          [] outcome \in {"norecord", "nohash"} -> [got EXCEPT !.pc = "up_insert"]
          [] OTHER -> [got EXCEPT !.pc = "dk_len", !.wasm = outcome]

\* http_client.get(".../api/v1/tomains").send().await?, res.json().await?,
\* and the search for the tenant's wasm_hashes[target_env].
UpFetch(p, outcome) ==
    /\ task[p].pc = "up_fetch"
    /\ task' = [task EXCEPT ![p] = AfterFetch(task[p], outcome)]
    /\ UNCHANGED <<tenants, regd, perspective, audit_log, statuses>>

\* self.perspective.insert(tomain_id, target_env)
UpInsert(p) ==
    /\ task[p].pc = "up_insert"
    /\ perspective' = Put(perspective, task[p].tid, ToUpper(task[p].target))
    /\ task' = [task EXCEPT ![p] =
            IF ToUpper(task[p].target) = "RED"
            THEN [task[p] EXCEPT !.pc = "up_audit"]
            ELSE Done(task[p], "ok")]
    /\ UNCHANGED <<tenants, regd, audit_log, statuses>>

\* Entering RED with a new list in place of the tenant's entry
\* (audit_log.insert(tomain_id, Vec::new())).
UpAuditFresh(p) ==
    /\ task[p].pc = "up_audit"
    /\ audit_log' = Put(audit_log, task[p].tid, <<>>)
    /\ task' = [task EXCEPT ![p] = Done(task[p], "ok")]
    /\ UNCHANGED <<tenants, regd, perspective, statuses>>

\* self.audit_log.entry(tomain_id).or_insert_with(Vec::new)
UpAudit(p) ==
    /\ task[p].pc = "up_audit"
    /\ audit_log' = IF task[p].tid \in DOMAIN audit_log
                    THEN audit_log
                    ELSE Put(audit_log, task[p].tid, <<>>)
    /\ task' = [task EXCEPT ![p] = Done(task[p], "ok")]
    /\ UNCHANGED <<tenants, regd, perspective, statuses>>

\* ---------------------------------------------------------- retire_service

\* POST /admin/retire {tomain_id, env}: remove_tenant, result dropped.
RetireRoute(tid, env) ==
    /\ tenants' = RemoveTenant(tenants, tid, env)
    /\ regd' = Drop(regd, <<tid, ToUpper(env)>>)
    /\ UNCHANGED <<perspective, audit_log, statuses, task>>

\* ----------------------------------------------------------- call / reflect

\* GET /reflect/<tenant> (kind "reflect") or ANY /<tenant>/<func> ("call").
InvokeRoute(p, kind, tid) ==
    /\ Free(p)
    /\ task' = [task EXCEPT ![p] =
            [IdleTask EXCEPT !.op = kind, !.pc = "rq_persp", !.tid = tid]]
    /\ UNCHANGED <<tenants, regd, perspective, audit_log, statuses>>

\* let env = self.get_perspective(tomain_id)
RqPerspective(p) ==
    /\ task[p].pc = "rq_persp"
    /\ task' = [task EXCEPT ![p].env = GetPerspective(perspective, task[p].tid),
                            ![p].pc = "rq_get"]
    /\ UNCHANGED <<tenants, regd, perspective, audit_log, statuses>>

\* The task after get_tenant(tomain_id, &env) answered `found`.
AfterLookup(t, found) ==
    IF found = NoInstance
    THEN Done(t, "err_slot")
    ELSE [t EXCEPT !.inst = found, !.env = "", !.pc = "rq_run", !.left = MaxRunSteps]

\* let tenant = self.manager.get_tenant(tomain_id, &env).await.context(..)?
RqGet(p) ==
    /\ task[p].pc = "rq_get"
    /\ task' = [task EXCEPT ![p] =
            AfterLookup(task[p], GetTenant(tenants, task[p].tid, task[p].env))]
    /\ UNCHANGED <<tenants, regd, perspective, audit_log, statuses>>

\* The module a running invocation executes: the Arc<TenantInstance> the
\* bridge was handed.
ExecModule(t, ten) == t.inst

\* The guest runs up to its next host call.
RqRun(p) ==
    /\ task[p].pc = "rq_run"
    /\ task[p].left > 0
    /\ task' = [task EXCEPT ![p].ran = ExecModule(task[p], tenants),
                            ![p].left = task[p].left - 1]
    /\ UNCHANGED <<tenants, regd, perspective, audit_log, statuses>>

\* The call returns; the store and the module reference are dropped.
RqReturn(p) ==
    /\ task[p].pc = "rq_run"
    /\ task[p].left = 0
    /\ task' = [task EXCEPT ![p] = Done(task[p], "ok")]
    /\ UNCHANGED <<tenants, regd, perspective, audit_log, statuses>>

\* ------------------------------------------------------------------ bridge

\* store.set_fuel(1_000_000)
FuelPerCall == 1000000

\* The exports of the deployed modules that the bridge looks up, each with
\* the type the lookup asks for.
Exports(module) ==
    CASE module = "m1" -> {"__axiom_call_get_user", "axiom_health_check", "reflect"}
      [] module = "m2" -> {"ping", "reflect"}
      [] OTHER         -> {}

\* format!("__axiom_call_{}", name)
CallName(name) ==
    CASE name = "get-user" -> "__axiom_call_get-user"
      [] name = "get_user" -> "__axiom_call_get_user"
      [] name = "ping"     -> "__axiom_call_ping"
      [] OTHER             -> "__axiom_call_nosuch"

\* name.replace("-", "_")
Underscored(name) == IF name = "get-user" THEN "get_user" ELSE name

\* The first element of the sequence of names that the module exports, or
\* "" when it exports none of them.
RECURSIVE FirstExported(_, _)
FirstExported(names, exports) ==
    IF names = <<>> THEN ""
    ELSE IF Head(names) \in exports THEN Head(names)
    ELSE FirstExported(Tail(names), exports)

\* invoke_call's lookup: the __axiom_call_ variants, then the plain
\* variants with "axiom_health_check" last; name "" when none is exported.
FindExport(exports, func_name) ==
    LET call  == FirstExported(<<CallName(func_name), CallName(Underscored(func_name))>>,
                               exports)
        plain == FirstExported(<<func_name, Underscored(func_name), "axiom_health_check">>,
                               exports)
    IN  IF call # "" THEN [kind |-> "call", name |-> call]
        ELSE [kind |-> "plain", name |-> plain]

\* A store left without fuel.
CreateStoreUnfuelled(module) ==
    [fuel |-> 0, data |-> module, input |-> "", dirty |-> FALSE]

\* create_store, then instantiate: a new Store with its fuel, and an
\* instance whose memory holds the module's data.
CreateStore(module) ==
    [fuel |-> FuelPerCall, data |-> module, input |-> "", dirty |-> FALSE]

\* The supervisor hands the looked-up tenant to invoke_call,
\* invoke_reflect or invoke_health.
BridgeInvoke(p, kind, tid, func_name, query_json) ==
    /\ Free(p)
    /\ GetTenant(tenants, tid, GetPerspective(perspective, tid)) # NoInstance
    /\ task' = [task EXCEPT ![p] =
            [IdleTask EXCEPT !.op = kind, !.pc = "br_store", !.tid = tid,
                             !.inst = GetTenant(tenants, tid, GetPerspective(perspective, tid)),
                             !.func = func_name, !.query = query_json]]
    /\ UNCHANGED <<tenants, regd, perspective, audit_log, statuses>>

\* create_store, create_linker and instantiate_async
BrInstantiate(p) ==
    /\ task[p].pc = "br_store"
    /\ task' = [task EXCEPT ![p].store = CreateStore(task[p].inst.module),
                            ![p].pc = "br_find"]
    /\ UNCHANGED <<tenants, regd, perspective, audit_log, statuses>>

\* invoke_health answers "Healthy" with the instance made. Else the lookup
\* of the export to call: reflect for invoke_reflect; for invoke_call the
\* name variants, the query written into memory for an __axiom_call_
\* wrapper; an error naming func_name when none is found.
BrFind(p) ==
    /\ task[p].pc = "br_find"
    /\ LET t     == task[p]
           ex    == Exports(t.inst.module)
           found == IF t.op = "reflect"
                    THEN [kind |-> "plain", name |-> FirstExported(<<"reflect">>, ex)]
                    ELSE FindExport(ex, t.func)
       IN  task' = [task EXCEPT ![p] =
               IF t.op = "health" THEN Done(t, "Healthy")
               ELSE IF found.name = ""
               THEN [Done(t, "err_not_found") EXCEPT !.func = t.func]
               ELSE [t EXCEPT !.pc = "br_run", !.exec = found.name,
                              !.store.input = IF found.kind = "call" THEN t.query ELSE ""]]
    /\ UNCHANGED <<tenants, regd, perspective, audit_log, statuses>>

\* The guest runs on: it burns fuel and writes its memory, or traps when
\* the fuel does not suffice.
BrRun(p, cost) ==
    /\ task[p].pc = "br_run"
    /\ LET t == task[p]
       IN  task' = [task EXCEPT ![p] =
               IF t.store.fuel < cost
               THEN Done(t, "err_fuel")
               ELSE [t EXCEPT !.store.fuel = @ - cost, !.store.dirty = TRUE]]
    /\ UNCHANGED <<tenants, regd, perspective, audit_log, statuses>>

\* The export returns; the result is read and the store dropped.
BrReturn(p) ==
    /\ task[p].pc = "br_run"
    /\ task' = [task EXCEPT ![p] = Done(task[p], "ok")]
    /\ UNCHANGED <<tenants, regd, perspective, audit_log, statuses>>

\* ------------------------------------------------------------ TokenBucket

\* Bucket levels are kept in thousandths of a token, the resolution of
\* num_milliseconds() as f64 / 1000.0 times an integral fill_rate.
OneToken == 1000

\* TokenBucket::new(rate) at time t.
TokenBucketNew(rate, t) ==
    [capacity |-> rate * OneToken, tokens |-> rate * OneToken,
     fill_rate |-> rate, last_filled |-> t]

\* try_consume without the clamp to capacity.
TryConsumeNoClamp(b, t) ==
    LET filled == b.tokens + (t - b.last_filled) * b.fill_rate
        ok     == filled >= OneToken
    IN  [ok |-> ok,
         bucket |-> [b EXCEPT !.tokens = IF ok THEN filled - OneToken ELSE filled,
                              !.last_filled = t]]

\* try_consume that leaves last_filled where it was.
TryConsumeStaleFill(b, t) ==
    LET filled == Min(b.tokens + (t - b.last_filled) * b.fill_rate, b.capacity)
        ok     == filled >= OneToken
    IN  [ok |-> ok,
         bucket |-> [b EXCEPT !.tokens = IF ok THEN filled - OneToken ELSE filled]]

\* TokenBucket::try_consume at time t: the answer and the bucket after it.
TryConsume(b, t) ==
    LET filled == Min(b.tokens + (t - b.last_filled) * b.fill_rate, b.capacity)
        ok     == filled >= OneToken
    IN  [ok |-> ok,
         bucket |-> [b EXCEPT !.tokens = IF ok THEN filled - OneToken ELSE filled,
                              !.last_filled = t]]

\* entry(key).or_insert_with(|| TokenBucket::new(limit_per_sec))
BucketEntry(buckets, key, limit_per_sec, t) ==
    IF key \in DOMAIN buckets THEN buckets[key] ELSE TokenBucketNew(limit_per_sec, t)

\* check_upstream ignoring the bucket loaded from rate_limits.upstream.
CheckUpstreamDefaultOnly(buckets, key, limit_per_sec, t) ==
    TryConsume(IF key \in DOMAIN buckets /\ buckets[key].fill_rate = limit_per_sec
               THEN buckets[key] ELSE TokenBucketNew(limit_per_sec, t), t)

\* TrafficController::check_upstream / check_downstream at time t.
CheckBucket(buckets, key, limit_per_sec, t) ==
    TryConsume(BucketEntry(buckets, key, limit_per_sec, t), t)

\* The rate the routes pass to check_upstream, and http_call to
\* check_downstream.
DefaultUpstreamRate == 100

DefaultDownstreamRate == 10

\* The clock advances by d milliseconds.
Tick(d, max) ==
    /\ now + d <= max
    /\ now' = now + d
    /\ UNCHANGED <<tenants, regd, perspective, audit_log, statuses, task,
                   public_keys, upstream_buckets, downstream_buckets, breakers, egress>>

\* -------------------------------------------------- reload_from_registry

\* POST /admin/reload-bindings with session.json holding cfg.
ReloadRoute(p, cfg) ==
    /\ Free(p)
    /\ task' = [task EXCEPT ![p] =
            IF cfg.file = "none"
            THEN [IdleTask EXCEPT !.op = "reload", !.pc = "done", !.res = "ok"]
            ELSE [IdleTask EXCEPT !.op = "reload", !.pc = "rl_clear_bindings",
                                  !.cfg = cfg]]
    /\ UNCHANGED <<tenants, regd, perspective, audit_log, statuses, resilience, egress>>

\* egress.reload_from_registry without the clear.
RlKeepBindings(p) ==
    /\ task[p].pc = "rl_clear_bindings"
    /\ task' = [task EXCEPT ![p].pc = "rl_load_bindings"]
    /\ UNCHANGED <<tenants, regd, perspective, audit_log, statuses, resilience, egress>>

\* egress.reload_from_registry: self.bindings.clear()
RlClearBindings(p) ==
    /\ task[p].pc = "rl_clear_bindings"
    /\ bindings' = EmptyMap
    /\ task' = [task EXCEPT ![p].pc = "rl_load_bindings"]
    /\ UNCHANGED <<tenants, regd, perspective, audit_log, statuses, resilience, manifests>>

\* self.bindings.insert for every (tomain, env, alias) of the file
RlLoadBindings(p) ==
    /\ task[p].pc = "rl_load_bindings"
    /\ bindings' = Merge(bindings, task[p].cfg.bindings)
    /\ task' = [task EXCEPT ![p].pc =
            IF task[p].cfg.has_manifests THEN "rl_manifests" ELSE "rl_clear_keys"]
    /\ UNCHANGED <<tenants, regd, perspective, audit_log, statuses, resilience, manifests>>

\* if the file has "manifests": self.manifests.clear(), then insert each
RlManifests(p) ==
    /\ task[p].pc = "rl_manifests"
    /\ manifests' = task[p].cfg.manifests
    /\ task' = [task EXCEPT ![p].pc = "rl_clear_keys"]
    /\ UNCHANGED <<tenants, regd, perspective, audit_log, statuses, resilience, bindings>>

\* resilience.reload_from_registry: self.security.public_keys.clear()
RlClearKeys(p) ==
    /\ task[p].pc = "rl_clear_keys"
    /\ public_keys' = EmptyMap
    /\ task' = [task EXCEPT ![p].pc = "rl_clear_up"]
    /\ UNCHANGED <<tenants, regd, perspective, audit_log, statuses,
                   now, upstream_buckets, downstream_buckets, breakers, egress>>

\* self.traffic.upstream_buckets.clear()
RlClearUp(p) ==
    /\ task[p].pc = "rl_clear_up"
    /\ upstream_buckets' = EmptyMap
    /\ task' = [task EXCEPT ![p].pc = "rl_clear_down"]
    /\ UNCHANGED <<tenants, regd, perspective, audit_log, statuses,
                   now, public_keys, downstream_buckets, breakers, egress>>

\* self.traffic.downstream_buckets.clear()
RlClearDown(p) ==
    /\ task[p].pc = "rl_clear_down"
    /\ downstream_buckets' = EmptyMap
    /\ task' = [task EXCEPT ![p].pc = "rl_keys"]
    /\ UNCHANGED <<tenants, regd, perspective, audit_log, statuses,
                   now, public_keys, upstream_buckets, breakers, egress>>

\* 1. Load Public Keys: public_keys.insert for every entry of the file.
RlKeys(p) ==
    /\ task[p].pc = "rl_keys"
    /\ public_keys' = Merge(public_keys, task[p].cfg.public_keys)
    /\ task' = [task EXCEPT ![p].pc = "rl_limits"]
    /\ UNCHANGED <<tenants, regd, perspective, audit_log, statuses,
                   now, upstream_buckets, downstream_buckets, breakers, egress>>

\* 3. Load Rate Limits: upstream_buckets.insert(id, TokenBucket::new(l)).
RlLimits(p) ==
    /\ task[p].pc = "rl_limits"
    /\ upstream_buckets' =
            [id \in DOMAIN upstream_buckets \cup DOMAIN task[p].cfg.upstream |->
                IF id \in DOMAIN task[p].cfg.upstream
                THEN TokenBucketNew(task[p].cfg.upstream[id], now)
                ELSE upstream_buckets[id]]
    /\ task' = [task EXCEPT ![p] =
            [IdleTask EXCEPT !.op = "reload", !.pc = "done", !.res = "ok",
                             !.cfg = task[p].cfg]]
    /\ UNCHANGED <<tenants, regd, perspective, audit_log, statuses,
                   now, public_keys, downstream_buckets, breakers, egress>>

\* ------------------------------------------- the guards of /{tomain}/{func}

\* validate_jwt accepting a token whoever signed it.
ValidateJwtAnySigner(keys, id, token) ==
    /\ id \in DOMAIN keys
    /\ token.exp = "future"

\* SecurityManager::validate_jwt: the tenant's key is found and the token
\* decodes as RS256 claims signed by it with exp not in the past.
ValidateJwt(keys, id, token) ==
    /\ id \in DOMAIN keys
    /\ token.signer = keys[id]
    /\ token.exp = "future"

\* A request to /<tenant>/<func> with the given method and Authorization
\* header; an OPTIONS request is answered at once.
GuardedRoute(p, method, tid, auth) ==
    /\ Free(p)
    /\ task' = [task EXCEPT ![p] =
            IF method = "OPTIONS"
            THEN [IdleTask EXCEPT !.op = "call", !.pc = "done", !.tid = tid,
                                  !.res = "preflight"]
            ELSE [IdleTask EXCEPT !.op = "call", !.pc = "gt_rate", !.tid = tid,
                                  !.auth = auth]]
    /\ UNCHANGED <<tenants, regd, perspective, audit_log, statuses, resilience, egress>>

\* if !sv.resilience.traffic.check_upstream(&tomain, 100.0) { 429 }
GtRate(p) ==
    /\ task[p].pc = "gt_rate"
    /\ LET c == CheckBucket(upstream_buckets, task[p].tid, DefaultUpstreamRate, now)
       IN  /\ upstream_buckets' = Put(upstream_buckets, task[p].tid, c.bucket)
           /\ task' = [task EXCEPT ![p] =
                   IF c.ok THEN [task[p] EXCEPT !.pc = "gt_key"]
                   ELSE Done(task[p], "429")]
    /\ UNCHANGED <<tenants, regd, perspective, audit_log, statuses,
                   now, public_keys, downstream_buckets, breakers, egress>>

\* if public_keys.contains_key(&tomain): the header must start with
\* "Bearer "; without a key the request goes on unauthenticated.
GtKey(p) ==
    /\ task[p].pc = "gt_key"
    /\ task' = [task EXCEPT ![p] =
            IF task[p].tid \notin DOMAIN public_keys
            THEN [task[p] EXCEPT !.pc = "rq_persp"]
            ELSE IF task[p].auth.scheme = "Bearer"
            THEN [task[p] EXCEPT !.pc = "gt_jwt"]
            ELSE Done(task[p], "401")]
    /\ UNCHANGED <<tenants, regd, perspective, audit_log, statuses, resilience, egress>>

\* validate_jwt(&tomain, token).is_ok(), else 401
GtJwt(p) ==
    /\ task[p].pc = "gt_jwt"
    /\ task' = [task EXCEPT ![p] =
            IF ValidateJwt(public_keys, task[p].tid, task[p].auth)
            THEN [task[p] EXCEPT !.pc = "rq_persp"]
            ELSE Done(task[p], "401")]
    /\ UNCHANGED <<tenants, regd, perspective, audit_log, statuses, resilience, egress>>

\* --------------------------------------------------------- CircuitBreaker

\* failure_count >= 5 opens the breaker.
FailureThreshold == 5

\* (now - last).num_seconds() > 30
CooldownSeconds == 30

\* let max_retries = 3
MaxRetries == 3

\* CircuitBreaker::new; last_failure is <<>> for None and <<t>> for Some(t).
CircuitBreakerNew == [state |-> "Closed", failure_count |-> 0, last_failure |-> <<>>]

\* breakers.entry(alias).or_insert_with(CircuitBreaker::new)
BreakerEntry(brk, alias) == IF alias \in DOMAIN brk THEN brk[alias] ELSE CircuitBreakerNew

\* report_success that leaves the failure count where it was.
ReportSuccessKeepCount(b) == [b EXCEPT !.state = "Closed"]

\* report_success
ReportSuccess(b) == [b EXCEPT !.state = "Closed", !.failure_count = 0]

\* report_failure opening only past the threshold.
ReportFailureLate(b, t) ==
    [b EXCEPT !.failure_count = @ + 1,
              !.last_failure = <<t>>,
              !.state = IF b.failure_count + 1 > FailureThreshold THEN "Open" ELSE @]

\* report_failure at time t
ReportFailure(b, t) ==
    [b EXCEPT !.failure_count = @ + 1,
              !.last_failure = <<t>>,
              !.state = IF b.failure_count + 1 >= FailureThreshold THEN "Open" ELSE @]

\* chrono::Duration::num_seconds of a span of ms milliseconds (ms >= 0).
NumSeconds(ms) == ms \div 1000

\* should_allow that lets the first call after opening through as a probe.
ShouldAllowNoCooldown(b, t) ==
    CASE b.state = "Closed"   -> [ok |-> TRUE, breaker |-> b]
      [] b.state = "Open"     -> [ok |-> TRUE, breaker |-> [b EXCEPT !.state = "HalfOpen"]]
      [] b.state = "HalfOpen" -> [ok |-> TRUE, breaker |-> b]

\* should_allow at time t: the answer and the breaker after it.
ShouldAllow(b, t) ==
    CASE b.state = "Closed"   -> [ok |-> TRUE, breaker |-> b]
      [] b.state = "Open"     ->
            IF b.last_failure # <<>> /\ NumSeconds(t - b.last_failure[1]) > CooldownSeconds
            THEN [ok |-> TRUE, breaker |-> [b EXCEPT !.state = "HalfOpen"]]
            ELSE [ok |-> FALSE, breaker |-> b]
      [] b.state = "HalfOpen" -> [ok |-> TRUE, breaker |-> b]

\* ---------------------------------------------------------------- http_call

\* alias.starts_with("http") on the aliases guests pass.
StartsWithHttp(alias) == alias \in {"http://up", "http://db"}

\* resolve following the manifest for as long as it maps the name.
ResolveChained(bnd, man, id, logical_name, env) ==
    LET once  == IF <<id, logical_name>> \in DOMAIN man
                 THEN man[<<id, logical_name>>] ELSE logical_name
        alias == IF <<id, once>> \in DOMAIN man THEN man[<<id, once>>] ELSE once
    IN  IF <<id, env, alias>> \in DOMAIN bnd THEN bnd[<<id, env, alias>>]
        ELSE IF <<id, "GLOBAL", alias>> \in DOMAIN bnd THEN bnd[<<id, "GLOBAL", alias>>]
        ELSE ""

\* EgressResolver::resolve: the manifest's alias for a logical name, then
\* the binding for (tomain, env, alias), then the GLOBAL one; "" for Err.
Resolve(bnd, man, id, logical_name, env) ==
    LET alias == IF <<id, logical_name>> \in DOMAIN man
                 THEN man[<<id, logical_name>>] ELSE logical_name
    IN  IF <<id, env, alias>> \in DOMAIN bnd THEN bnd[<<id, env, alias>>]
        ELSE IF <<id, "GLOBAL", alias>> \in DOMAIN bnd THEN bnd[<<id, "GLOBAL", alias>>]
        ELSE ""

\* A caller awaits egress.resolve(id, logical_name, env) and has its answer.
EgressResolve(p, id, logical_name, env) ==
    /\ Free(p)
    /\ task' = [task EXCEPT ![p] =
            [IdleTask EXCEPT !.op = "resolve", !.pc = "done", !.tid = id,
                             !.target = logical_name, !.env = env,
                             !.res = Resolve(bindings, manifests, id, logical_name, env)]]
    /\ UNCHANGED <<tenants, regd, perspective, audit_log, statuses, resilience, egress>>

\* http_call has returned r to the guest after `sent` outbound requests.
Returned(t, r) == [Done(t, r) EXCEPT !.alias = t.alias, !.sent = t.sent]

\* A running guest of tenant tid calls http_call(alias, method, ..).
HostHttpCall(p, tid, alias, method) ==
    /\ Free(p)
    /\ task' = [task EXCEPT ![p] =
            [IdleTask EXCEPT !.op = "http_call", !.pc = "hc_env", !.tid = tid,
                             !.alias = alias, !.method = ToUpper(method)]]
    /\ UNCHANGED <<tenants, regd, perspective, audit_log, statuses, resilience, egress>>

\* The caller's perspective is read; under RED the call is recorded.
HcEnv(p) ==
    /\ task[p].pc = "hc_env"
    /\ LET t   == task[p]
           env == IF t.tid \in DOMAIN perspective THEN perspective[t.tid] ELSE "GREEN"
       IN  /\ task' = [task EXCEPT ![p].env = env, ![p].pc = "hc_boundary"]
           /\ audit_log' =
                IF env = "RED"
                THEN Put(audit_log, t.tid,
                         Append(IF t.tid \in DOMAIN audit_log THEN audit_log[t.tid] ELSE <<>>,
                                <<"HTTP", t.method, t.tid, t.alias>>))
                ELSE audit_log
    /\ UNCHANGED <<tenants, regd, perspective, statuses, resilience, egress>>

\* A security boundary that lets every alias through.
HcBoundaryOpen(p) ==
    /\ task[p].pc = "hc_boundary"
    /\ task' = [task EXCEPT ![p].pc = "hc_resolve"]
    /\ UNCHANGED <<tenants, regd, perspective, audit_log, statuses, resilience, egress>>

\* Security Boundary: the alias must be a tenant deployed in the caller's
\* environment or start with "http".
HcBoundary(p) ==
    /\ task[p].pc = "hc_boundary"
    /\ task' = [task EXCEPT ![p] =
            IF GetTenant(tenants, task[p].alias, task[p].env) = NoInstance
               /\ ~StartsWithHttp(task[p].alias)
            THEN Returned(task[p], "Error: Security Boundary")
            ELSE [task[p] EXCEPT !.pc = "hc_resolve"]]
    /\ UNCHANGED <<tenants, regd, perspective, audit_log, statuses, resilience, egress>>

\* supervisor.egress.resolve(&tomain_id, &alias, &environment); Err => Ok(0)
HcResolve(p) ==
    /\ task[p].pc = "hc_resolve"
    /\ task' = [task EXCEPT ![p] =
            IF Resolve(bindings, manifests, task[p].tid, task[p].alias, task[p].env) = ""
            THEN Returned(task[p], "0")
            ELSE [task[p] EXCEPT !.pc = "hc_rate", !.env = "", !.method = ""]]
    /\ UNCHANGED <<tenants, regd, perspective, audit_log, statuses, resilience, egress>>

\* a. Rate Limiting: check_downstream(&alias, 10.0)
HcRate(p) ==
    /\ task[p].pc = "hc_rate"
    /\ LET c == CheckBucket(downstream_buckets, task[p].alias, DefaultDownstreamRate, now)
       IN  /\ downstream_buckets' = Put(downstream_buckets, task[p].alias, c.bucket)
           /\ task' = [task EXCEPT ![p] =
                   IF c.ok THEN [task[p] EXCEPT !.pc = "hc_gate"]
                   ELSE Returned(task[p], "Error: Rate Limit Exceeded (429)")]
    /\ UNCHANGED <<tenants, regd, perspective, audit_log, statuses,
                   now, public_keys, upstream_buckets, breakers, egress>>

\* A gate that consults a breaker of the calling tenant's own.
HcGateOwnBreaker(p) ==
    /\ task[p].pc = "hc_gate"
    /\ LET a == ShouldAllow(BreakerEntry(breakers, task[p].tid), now)
       IN  /\ breakers' = Put(breakers, task[p].tid, a.breaker)
           /\ task' = [task EXCEPT ![p] =
                   IF a.ok THEN [task[p] EXCEPT !.pc = "hc_send"]
                   ELSE Returned(task[p], "Error: Circuit Breaker Open")]
    /\ UNCHANGED <<tenants, regd, perspective, audit_log, statuses,
                   now, public_keys, upstream_buckets, downstream_buckets, egress>>

\* b. Circuit Breaker: breakers.entry(alias).or_insert_with(new).should_allow()
HcGate(p) ==
    /\ task[p].pc = "hc_gate"
    /\ LET a == ShouldAllow(BreakerEntry(breakers, task[p].alias), now)
       IN  /\ breakers' = Put(breakers, task[p].alias, a.breaker)
           /\ task' = [task EXCEPT ![p] =
                   IF a.ok THEN [task[p] EXCEPT !.pc = "hc_send"]
                   ELSE Returned(task[p], "Error: Circuit Breaker Open")]
    /\ UNCHANGED <<tenants, regd, perspective, audit_log, statuses,
                   now, public_keys, upstream_buckets, downstream_buckets, egress>>

\* 2u64.pow(attempts - 1) seconds, in milliseconds; none before the first
\* attempt.
RECURSIVE Pow2(_)
Pow2(n) == IF n = 0 THEN 1 ELSE 2 * Pow2(n - 1)

\* A backoff growing by a second per retry.
BackoffLinear(attempts) == attempts * 1000

Backoff(attempts) == IF attempts = 0 THEN 0 ELSE Pow2(attempts - 1) * 1000

\* One turn of the retry loop up to send(): the backoff sleep, over by
\* `max` at the latest, then the outbound request.
HcSend(p, max) ==
    /\ task[p].pc = "hc_send"
    /\ now + Backoff(task[p].attempts) <= max
    /\ now' = now + Backoff(task[p].attempts)
    /\ task' = [task EXCEPT ![p].pc = "hc_wait", ![p].sent = @ + 1]
    /\ UNCHANGED <<tenants, regd, perspective, audit_log, statuses,
                   public_keys, upstream_buckets, downstream_buckets, breakers, egress>>

\* resp.text(): the body of a response of the given status class.
Body(resp) ==
    CASE resp = "2xx" -> "2xx body"
      [] resp = "3xx" -> "3xx body"
      [] resp = "4xx" -> "4xx body"
      [] OTHER        -> "Error reading body"

\* The retry loop going round on every answer that is not a success.
AfterResponseRetryAll(t, resp) ==
    CASE resp = "2xx" -> Returned(t, Body(resp))
      [] OTHER ->
            IF t.attempts < MaxRetries
            THEN [t EXCEPT !.pc = "hc_send", !.attempts = @ + 1]
            ELSE Returned(t, "Error: Downstream FAILED after 3 retries")

\* The task after send() answered resp on its attempt: success returns the
\* body, a server error or transport error goes round the loop or exhausts
\* it, any other status returns the body.
AfterResponse(t, resp) ==
    CASE resp = "2xx" -> Returned(t, Body(resp))
      [] resp \in {"5xx", "err"} ->
            IF t.attempts < MaxRetries
            THEN [t EXCEPT !.pc = "hc_send", !.attempts = @ + 1]
            ELSE Returned(t, "Error: Downstream FAILED after 3 retries")
      [] OTHER -> Returned(t, Body(resp))

\* send().await answered: report_success on 2xx, report_failure on any
\* other final answer and on exhaustion, nothing while retrying. resp keeps
\* the answer of the last attempt.
HcResponse(p, resp) ==
    /\ task[p].pc = "hc_wait"
    /\ LET t  == task[p]
           t2 == [AfterResponse(t, resp) EXCEPT !.resp = resp]
           b  == BreakerEntry(breakers, t.alias)
       IN  /\ task' = [task EXCEPT ![p] = t2]
           /\ breakers' =
                IF t2.pc # "done" THEN breakers
                ELSE IF resp = "2xx" THEN Put(breakers, t.alias, ReportSuccess(b))
                ELSE Put(breakers, t.alias, ReportFailure(b, now))
    /\ UNCHANGED <<tenants, regd, perspective, audit_log, statuses,
                   now, public_keys, upstream_buckets, downstream_buckets, egress>>

\* --------------------------------------------------------------- db_execute

\* A running guest of tenant tid calls db_execute(alias, query); query ""
\* stands for query_ptr = 0 or query_len = 0.
HostDbExecute(p, tid, alias, query) ==
    /\ Free(p)
    /\ task' = [task EXCEPT ![p] =
            [IdleTask EXCEPT !.op = "db_execute", !.pc = "db_env", !.tid = tid,
                             !.alias = alias, !.query = query]]
    /\ UNCHANGED <<tenants, regd, perspective, audit_log, statuses, resilience, egress>>

\* Without a query the call returns 0; otherwise the caller's perspective is
\* read and under RED the call is recorded.
DbEnv(p) ==
    /\ task[p].pc = "db_env"
    /\ LET t   == task[p]
           env == IF t.tid \in DOMAIN perspective THEN perspective[t.tid] ELSE "GREEN"
       IN  IF t.query = ""
           THEN /\ task' = [task EXCEPT ![p] = Returned(t, "0")]
                /\ audit_log' = audit_log
           ELSE /\ task' = [task EXCEPT ![p].env = env, ![p].pc = "db_query"]
                /\ audit_log' =
                     IF env = "RED"
                     THEN Put(audit_log, t.tid,
                              Append(IF t.tid \in DOMAIN audit_log
                                     THEN audit_log[t.tid] ELSE <<>>,
                                     <<"DB_EXECUTE", t.tid, t.alias>>))
                     ELSE audit_log
    /\ UNCHANGED <<tenants, regd, perspective, statuses, resilience, egress>>

\* serde_json::from_str(&query_json)?, db_registry.get(&alias) and
\* provider.execute_query(query).await: the query does not parse, no
\* provider has the alias, the provider fails, or it answers rows.
DbQuery(p, outcome) ==
    /\ task[p].pc = "db_query"
    /\ task' = [task EXCEPT ![p] =
            CASE outcome = "unparsable" -> Returned(task[p], "err_parse")
              [] outcome = "rows"       -> Returned(task[p], "rows")
              [] OTHER                  -> Returned(task[p], "0")]
    /\ UNCHANGED <<tenants, regd, perspective, audit_log, statuses, resilience, egress>>

\* ------------------------------------------------- background health loop

\* The (tenant, env) slots check_all_health may find in TenantManager.tenants;
\* the sweep keeps in `left` which of them it has visited, slot i as bit i-1.
SweepSlots == <<<<"a", "GREEN">>, <<"a", "BLUE">>, <<"e", "GREEN">>, <<"e", "BLUE">>>>

Visited(mask, i) == (mask \div Pow2(i - 1)) % 2 = 1

\* The task holds the read guard `tenants` of check_all_health: from
\* self.manager.tenants.read().await until the function returns.
SweepHolds(p) ==
    task[p].op = "health" /\ task[p].pc \in {"hs_next", "hs_probe", "hs_status"}

ReadLocked == \E p \in Tasks : SweepHolds(p)

\* A register_tenant is suspended in self.tenants.write().await.
WriterQueued == \E p \in Tasks : task[p].pc = "dk_write"

\* The 30 s sleep of the loop spawned by main ends: check_all_health().
HealthTick(p) ==
    /\ Free(p)
    /\ \A q \in Tasks : task[q].op # "health" \/ Free(q)
    /\ task' = [task EXCEPT ![p] = [IdleTask EXCEPT !.op = "health", !.pc = "hs_lock"]]
    /\ UNCHANGED <<tenants, regd, perspective, audit_log, statuses>>

\* let tenants = self.manager.tenants.read().await: granted unless a writer
\* is queued ahead.
HsLock(p) ==
    /\ task[p].pc = "hs_lock"
    /\ ~WriterQueued
    /\ task' = [task EXCEPT ![p].pc = "hs_next"]
    /\ UNCHANGED <<tenants, regd, perspective, audit_log, statuses>>

\* The two for loops: the next slot of the map in the map's own order, or
\* the end of the function, where the guard is dropped.
HsNext(p) ==
    /\ task[p].pc = "hs_next"
    /\ LET t    == task[p]
           todo == {i \in DOMAIN SweepSlots :
                        /\ ~Visited(t.left, i)
                        /\ GetTenant(tenants, SweepSlots[i][1], SweepSlots[i][2]) # NoInstance}
       IN  IF todo = {}
           THEN task' = [task EXCEPT ![p] = Done(t, "ok")]
           ELSE \E i \in todo :
                    task' = [task EXCEPT ![p].tid = SweepSlots[i][1],
                                         ![p].env = SweepSlots[i][2],
                                         ![p].left = t.left + Pow2(i - 1),
                                         ![p].pc = "hs_probe"]
    /\ UNCHANGED <<tenants, regd, perspective, audit_log, statuses>>

\* invoke_health(self.clone(), tenant.clone()).await: the module is
\* instantiated; Err becomes "Unhealthy".
HsProbe(p, status) ==
    /\ task[p].pc = "hs_probe"
    /\ task' = [task EXCEPT ![p].res = status, ![p].pc = "hs_status"]
    /\ UNCHANGED <<tenants, regd, perspective, audit_log, statuses>>

\* if *env == current_perspective { update_session_status(id, &status) }:
\* dres keeps the status written into session.json for the slot.
HsStatus(p) ==
    /\ task[p].pc = "hs_status"
    /\ LET t == task[p]
           current_perspective == GetPerspective(perspective, t.tid)
       IN  task' = [task EXCEPT ![p].dres = IF t.env = current_perspective
                                            THEN t.res ELSE "",
                                ![p].pc = "hs_next"]
    /\ UNCHANGED <<tenants, regd, perspective, audit_log, statuses>>

\* register_tenant with the slot table's lock: the module is compiled, and
\* self.tenants.write().await suspends the task while a read guard is out.
DkRegisterLocked(p) ==
    /\ task[p].pc = "dk_register"
    /\ IF ReadLocked /\ ModuleNew(Base64Decode(task[p].wasm)) # "CompileError"
                     /\ Base64Decode(task[p].wasm) # "DecodeError"
       THEN /\ task' = [task EXCEPT ![p].pc = "dk_write"]
            /\ UNCHANGED <<tenants, regd, perspective, audit_log, statuses>>
       ELSE DkRegister(p)

\* The write guard is granted once no read guard is out: the insert.
DkWrite(p) ==
    /\ task[p].pc = "dk_write"
    /\ ~ReadLocked
    /\ LET t    == task[p]
           inst == TenantInstance(t.tid, ModuleNew(Base64Decode(t.wasm)))
       IN  /\ tenants' = RegisterTenant(tenants, t.tid, DeployEnv(t), inst)
           /\ regd' = Put(regd, <<t.tid, ToUpper(DeployEnv(t))>>, inst)
           /\ task' = [task EXCEPT ![p].pc = "dk_status"]
    /\ UNCHANGED <<perspective, audit_log, statuses>>

\* remove_tenant with the slot table's lock.
RetireLocked(tid, env) ==
    /\ ~ReadLocked
    /\ ~WriterQueued
    /\ RetireRoute(tid, env)

\* -------------------------------------------------------- specifications

\* The tenant ids the socket receives next: a filler id appears only after
\* the filler ids before it, and while no other handler is in flight.
SocketIds(p) ==
    ActiveIds \cup {f \in FillerIds : /\ FillerBefore[f] \subseteq DOMAIN tenants
                                      /\ \A q \in Tasks \ {p} : Free(q)}

\* A handler is accepted on task p: a socket message of a tenant in ids, a
\* perspective switch or an invocation of a tenant in TargetIds.
AcceptSocket(p, ids, I) ==
    \E tid \in ids : \E b64 \in SocketWasm(I, tid) : SocketAccept(p, tid, b64)

AcceptSwitch(p, I) ==
    \E tid \in TargetIds : \E tg \in I.targets : PerspectiveRoute(p, tid, tg)

AcceptInvoke(p) ==
    \E tid \in TargetIds : \E k \in {"call", "reflect"} : InvokeRoute(p, k, tid)

\* Task p takes the next step of the handler it runs.
StepDeploy(p) == DkLen(p) \/ DkRegister(p) \/ DkStatus(p)

StepSwitch(p, I) == UpGet(p) \/ (\E o \in I.ccp : UpFetch(p, o)) \/ UpInsert(p)

StepInvoke(p) == RqPerspective(p) \/ RqGet(p) \/ RqRun(p) \/ RqReturn(p)

Retire(ids) == \E tid \in ids : \E env \in RetireEnvs(tid) : RetireRoute(tid, env)

\* The tokio runtime serving one tenant: its deploys, switches, retires and
\* invocations run concurrently, interleaved at every await.
Next ==
    \/ \E p \in Tasks : AcceptSocket(p, TargetIds, ConcInputs) /\ UNCHANGED <<snap, granted, resilience, egress>>
    \/ \E p \in Tasks : AcceptSwitch(p, ConcInputs) /\ UNCHANGED <<snap, granted, resilience, egress>>
    \/ \E p \in Tasks : AcceptInvoke(p) /\ UNCHANGED <<snap, granted, resilience, egress>>
    \/ \E p \in Tasks : StepDeploy(p) /\ UNCHANGED <<snap, granted, resilience, egress>>
    \/ \E p \in Tasks : StepSwitch(p, ConcInputs) /\ UNCHANGED <<snap, granted, resilience, egress>>
    \/ \E p \in Tasks : UpAudit(p) /\ UNCHANGED <<snap, granted, resilience, egress>>
    \/ \E p \in Tasks : StepInvoke(p) /\ UNCHANGED <<snap, granted, resilience, egress>>
    \/ Retire(TargetIds) /\ UNCHANGED <<snap, granted, resilience, egress>>

Spec == Init /\ [][Next]_vars

\* The tokio runtime at the capacity ceiling: deploys through both
\* ingresses and retires run concurrently.
NextRace ==
    \/ \E p \in Tasks : AcceptSocket(p, SocketIds(p), RaceInputs) /\ UNCHANGED <<snap, granted, resilience, egress>>
    \/ \E p \in Tasks : AcceptSwitch(p, RaceInputs) /\ UNCHANGED <<snap, granted, resilience, egress>>
    \/ \E p \in Tasks : StepDeploy(p) /\ UNCHANGED <<snap, granted, resilience, egress>>
    \/ \E p \in Tasks : DkContains(p) /\ UNCHANGED <<snap, granted, resilience, egress>>
    \/ \E p \in Tasks : StepSwitch(p, RaceInputs) /\ UNCHANGED <<snap, granted, resilience, egress>>
    \/ Retire(TargetIds) /\ UNCHANGED <<snap, granted, resilience, egress>>

SpecRace == Init /\ [][NextRace]_vars

\* One handler at a time on one task, each run to completion; snap keeps
\* the tables as they were when the handler was accepted.
NextSeq ==
    \/ AcceptSocket(1, SocketIds(1), SeqInputs) /\ snap' = Tables /\ UNCHANGED <<granted, resilience, egress>>
    \/ SocketGarbage(1) /\ snap' = Tables /\ UNCHANGED <<granted, resilience, egress>>
    \/ AcceptSwitch(1, SeqInputs) /\ snap' = Tables /\ UNCHANGED <<granted, resilience, egress>>
    \/ AcceptInvoke(1) /\ snap' = Tables /\ UNCHANGED <<granted, resilience, egress>>
    \/ StepDeploy(1) /\ UNCHANGED <<snap, granted, resilience, egress>>
    \/ DkContains(1) /\ UNCHANGED <<snap, granted, resilience, egress>>
    \/ StepSwitch(1, SeqInputs) /\ UNCHANGED <<snap, granted, resilience, egress>>
    \/ UpAudit(1) /\ UNCHANGED <<snap, granted, resilience, egress>>
    \/ StepInvoke(1) /\ UNCHANGED <<snap, granted, resilience, egress>>
    \/ Free(1) /\ Retire(ActiveIds) /\ snap' = Tables /\ UNCHANGED <<granted, resilience, egress>>

SpecSeq == Init /\ [][NextSeq]_vars

\* One tenant's handlers, one at a time, with env names as the callers of
\* /admin/perspective and the CCP record supply them.
NextEnv ==
    \/ AcceptSocket(1, TargetIds, EnvInputs) /\ snap' = Tables /\ UNCHANGED <<granted, resilience, egress>>
    \/ AcceptSwitch(1, EnvInputs) /\ snap' = Tables /\ UNCHANGED <<granted, resilience, egress>>
    \/ AcceptInvoke(1) /\ snap' = Tables /\ UNCHANGED <<granted, resilience, egress>>
    \/ StepDeploy(1) /\ UNCHANGED <<snap, granted, resilience, egress>>
    \/ StepSwitch(1, EnvInputs) /\ UNCHANGED <<snap, granted, resilience, egress>>
    \/ StepInvoke(1) /\ UNCHANGED <<snap, granted, resilience, egress>>
    \/ Free(1) /\ Retire(TargetIds) /\ snap' = Tables /\ UNCHANGED <<granted, resilience, egress>>

SpecEnv == Init /\ [][NextEnv]_vars

\* The Shell serving with tenant "a" deployed in its GREEN slot, the
\* session.json contents cfg loaded by main's startup reloads and the
\* perspective table persp.
ServingIn(cfg, persp) ==
    /\ tenants = RegisterTenant(EmptyMap, "a", "GREEN", TenantInstance("a", "m1"))
    /\ regd = Put(EmptyMap, <<"a", "GREEN">>, TenantInstance("a", "m1"))
    /\ perspective = persp
    /\ audit_log = EmptyMap
    /\ statuses = {"a"}
    /\ task = [p \in Tasks |-> IdleTask]
    /\ snap = Tables
    /\ granted = EmptyMap
    /\ now = 0
    /\ public_keys = cfg.public_keys
    /\ upstream_buckets =
            [id \in DOMAIN cfg.upstream |-> TokenBucketNew(cfg.upstream[id], 0)]
    /\ downstream_buckets = EmptyMap
    /\ breakers = EmptyMap
    /\ bindings = cfg.bindings
    /\ manifests = cfg.manifests

\* The same before any perspective switch.
Serving(cfg) == ServingIn(cfg, EmptyMap)

\* The session.json contents a reload may find, and the Authorization
\* headers and methods of the requests to /a/<func>.
GateConfigs == {SessionFile([a |-> "k1"], EmptyMap), SessionFile(EmptyMap, EmptyMap)}

AuthHeaders ==
    {NoAuth,
     [scheme |-> "Basic",  signer |-> "",   exp |-> ""],
     [scheme |-> "Bearer", signer |-> "k1", exp |-> "future"],
     [scheme |-> "Bearer", signer |-> "k1", exp |-> "past"],
     [scheme |-> "Bearer", signer |-> "k2", exp |-> "future"]}

Methods == {"GET", "OPTIONS"}

\* Requests the upstream limiter admits before the last ones are accepted.
MaxGrants == 3

Grants(id) == IF id \in DOMAIN granted THEN granted[id] ELSE <<>>

StepReload(p) ==
    \/ RlClearBindings(p) \/ RlLoadBindings(p) \/ RlManifests(p)
    \/ RlClearKeys(p) \/ RlClearUp(p) \/ RlClearDown(p) \/ RlKeys(p) \/ RlLimits(p)

StepGuards(p) == GtRate(p) \/ GtKey(p) \/ GtJwt(p)

\* granted after a step of task p: a bucket that is cleared or replaced
\* starts a new history, a request let through by check_upstream is added.
GrantedAfter(p) ==
    LET t == task[p]
    IN  CASE t.pc = "rl_clear_up" -> EmptyMap
          [] t.pc = "rl_limits" ->
                [id \in DOMAIN granted \ DOMAIN t.cfg.upstream |-> granted[id]]
          [] t.pc = "gt_rate" /\ task'[p].pc = "gt_key" ->
                Put(granted, t.tid, Append(Grants(t.tid), now))
          [] OTHER -> granted

InitGate == \E cfg \in GateConfigs : Serving(cfg)

\* Concurrent requests to /a/<func> passing the guards and invoking the
\* guest; between requests /admin/reload-bindings reloads session.json.
NextGate ==
    \/ \E p \in Tasks : \E m \in Methods : \E h \in AuthHeaders :
            /\ \A q \in Tasks : task[q].op # "reload" \/ Free(q)
            /\ Len(Grants("a")) < MaxGrants
            /\ GuardedRoute(p, m, "a", h) /\ UNCHANGED <<snap, granted>>
    \/ \E p \in Tasks : StepGuards(p) /\ granted' = GrantedAfter(p) /\ UNCHANGED snap
    \/ \E p \in Tasks : StepInvoke(p) /\ UNCHANGED <<snap, granted, resilience, egress>>
    \/ \E p \in Tasks : \E cfg \in GateConfigs :
            /\ \A q \in Tasks : Free(q)
            /\ ReloadRoute(p, cfg) /\ UNCHANGED <<snap, granted>>
    \/ \E p \in Tasks : StepReload(p) /\ granted' = GrantedAfter(p) /\ UNCHANGED snap

SpecGate == InitGate /\ [][NextGate]_vars

\* The binding session.json holds for the upstream the guests of "a" call.
UpstreamBinding == [k \in {<<"a", "GLOBAL", "http://up">>} |-> "http://10.0.0.1/"]

InitEgress == Booted(UpstreamBinding)

StepEgress(p) == HcEnv(p) \/ HcBoundary(p) \/ HcResolve(p)

\* The answers of the upstream, and the clock's steps, while the breaker
\* of one alias is driven by concurrent http_calls.
BreakerResponses == {"2xx", "4xx"}

BreakerTicks == {15000, 16000}

\* The last instant of the breaker's runs, in milliseconds.
BreakerClockMax == 32000

\* Guests of tenant "a" calling http_call on one alias concurrently.
NextBreaker ==
    \/ \E p \in Tasks : HostHttpCall(p, "a", "http://up", "GET") /\ UNCHANGED <<snap, granted>>
    \/ \E p \in Tasks : StepEgress(p) /\ UNCHANGED <<snap, granted>>
    \/ \E p \in Tasks : HcRate(p) /\ UNCHANGED <<snap, granted>>
    \/ \E p \in Tasks : HcGate(p) /\ UNCHANGED <<snap, granted>>
    \/ \E p \in Tasks : HcSend(p, BreakerClockMax) /\ UNCHANGED <<snap, granted>>
    \/ \E p \in Tasks : \E r \in BreakerResponses : HcResponse(p, r) /\ UNCHANGED <<snap, granted>>
    \/ \E d \in BreakerTicks : Tick(d, BreakerClockMax) /\ UNCHANGED <<snap, granted>>

SpecBreaker == InitEgress /\ [][NextBreaker]_vars

\* The breaker of "http://up" as five 4xx answers at instant 0 leave it, and
\* the downstream bucket after the five calls.
TrippedBreaker == [state |-> "Open", failure_count |-> FailureThreshold, last_failure |-> <<0>>]

InitCooldown ==
    /\ tenants = EmptyMap
    /\ regd = EmptyMap
    /\ perspective = EmptyMap
    /\ audit_log = EmptyMap
    /\ statuses = {}
    /\ task = [p \in Tasks |-> IdleTask]
    /\ snap = Tables
    /\ granted = EmptyMap
    /\ now = 0
    /\ public_keys = EmptyMap
    /\ upstream_buckets = EmptyMap
    /\ downstream_buckets =
            [k \in {"http://up"} |->
                [TokenBucketNew(DefaultDownstreamRate, 0) EXCEPT
                    !.tokens = @ - FailureThreshold * OneToken]]
    /\ breakers = [k \in {"http://up"} |-> TrippedBreaker]
    /\ bindings = UpstreamBinding
    /\ manifests = EmptyMap

\* The last instant of the runs over two cooldowns.
CooldownClockMax == 63000

\* The history after task p's step: a report_failure that found the breaker
\* Half-Open is remembered with its time.
ReopenedAfter(p) ==
    LET alias == task[p].alias
    IN  IF /\ task[p].pc = "hc_wait"
           /\ BreakerEntry(breakers, alias).state = "HalfOpen"
           /\ BreakerEntry(breakers', alias).last_failure # BreakerEntry(breakers, alias).last_failure
              \/ BreakerEntry(breakers', alias).failure_count > BreakerEntry(breakers, alias).failure_count
        THEN Put(granted, alias, <<now>>)
        ELSE granted

\* Guests of tenant "a" calling http_call concurrently on the alias whose
\* breaker has opened, over two cooldowns.
NextCooldown ==
    \/ \E p \in Tasks : HostHttpCall(p, "a", "http://up", "GET") /\ UNCHANGED <<snap, granted>>
    \/ \E p \in Tasks : StepEgress(p) /\ UNCHANGED <<snap, granted>>
    \/ \E p \in Tasks : HcRate(p) /\ UNCHANGED <<snap, granted>>
    \/ \E p \in Tasks : HcGate(p) /\ UNCHANGED <<snap, granted>>
    \/ \E p \in Tasks : HcSend(p, CooldownClockMax) /\ UNCHANGED <<snap, granted>>
    \/ \E p \in Tasks : \E r \in BreakerResponses :
            HcResponse(p, r) /\ granted' = ReopenedAfter(p) /\ UNCHANGED snap
    \/ \E d \in BreakerTicks : Tick(d, CooldownClockMax) /\ UNCHANGED <<snap, granted>>

SpecCooldown == InitCooldown /\ [][NextCooldown]_vars

RetryTicks == {15000, 15500}

\* The last instant of the runs against an upstream that always fails: five
\* calls of 1 + 2 + 4 s of backoff each, then the cooldown.
RetryClockMax == 66000

\* One guest of tenant "a" calling http_call, one call at a time, on an
\* alias whose upstream answers every request with a 500.
NextRetry ==
    \/ HostHttpCall(1, "a", "http://up", "GET") /\ UNCHANGED <<snap, granted>>
    \/ StepEgress(1) /\ UNCHANGED <<snap, granted>>
    \/ HcRate(1) /\ UNCHANGED <<snap, granted>>
    \/ HcGate(1) /\ UNCHANGED <<snap, granted>>
    \/ HcSend(1, RetryClockMax) /\ UNCHANGED <<snap, granted>>
    \/ HcResponse(1, "5xx") /\ UNCHANGED <<snap, granted>>
    \/ \E d \in RetryTicks : Tick(d, RetryClockMax) /\ UNCHANGED <<snap, granted>>

SpecRetry == InitEgress /\ [][NextRetry]_vars

\* The upstream rates session.json configures for tenant "a"; tenant "e"
\* has none. Requests arrive for both.
ConfiguredRates == {1, 2}

RateConfigs ==
    {[SessionFile(EmptyMap, [a |-> r]) EXCEPT !.bindings = UpstreamBinding] :
        r \in ConfiguredRates}

RateTenants == {"a", "e"}

RateTicks == {400, 600}

\* The last instant of the rate limiters' runs, in milliseconds.
RateClockMax == 1000

\* The requests check_upstream has let through so far.
Admitted == Len(Grants("a")) + Len(Grants("e"))

InitRate == \E cfg \in RateConfigs : Serving(cfg)

\* Concurrent requests to /a/<func> and /e/<func> drawing on the upstream
\* buckets of the two tenants while time passes.
NextRate ==
    \/ \E p \in Tasks : \E tid \in RateTenants :
            /\ Admitted < MaxGrants
            /\ GuardedRoute(p, "GET", tid, NoAuth) /\ UNCHANGED <<snap, granted>>
    \/ \E p \in Tasks : StepGuards(p) /\ granted' = GrantedAfter(p) /\ UNCHANGED snap
    \/ \E p \in Tasks : StepInvoke(p) /\ UNCHANGED <<snap, granted, resilience, egress>>
    \/ \E d \in RateTicks : Tick(d, RateClockMax) /\ UNCHANGED <<snap, granted>>

SpecRate == InitRate /\ [][NextRate]_vars

\* Requests to /a/<func> and http_calls of the guests of "a", drawing on the
\* tenant's upstream bucket and on the alias's downstream bucket, while
\* time passes.
NextBucket ==
    \/ \E p \in Tasks :
            /\ Admitted < MaxGrants
            /\ GuardedRoute(p, "GET", "a", NoAuth) /\ UNCHANGED <<snap, granted>>
    \/ \E p \in Tasks : StepGuards(p) /\ granted' = GrantedAfter(p) /\ UNCHANGED snap
    \/ \E p \in Tasks : StepInvoke(p) /\ UNCHANGED <<snap, granted, resilience, egress>>
    \/ \E p \in Tasks : HostHttpCall(p, "a", "http://up", "GET") /\ UNCHANGED <<snap, granted>>
    \/ \E p \in Tasks : StepEgress(p) /\ UNCHANGED <<snap, granted>>
    \/ \E p \in Tasks : HcRate(p) /\ UNCHANGED <<snap, granted>>
    \/ \E p \in Tasks : HcGate(p) /\ UNCHANGED <<snap, granted>>
    \/ \E p \in Tasks : HcSend(p, RateClockMax) /\ UNCHANGED <<snap, granted>>
    \/ \E p \in Tasks : HcResponse(p, "2xx") /\ UNCHANGED <<snap, granted>>
    \/ \E d \in RateTicks : Tick(d, RateClockMax) /\ UNCHANGED <<snap, granted>>

SpecBucket == InitRate /\ [][NextBucket]_vars

\* The aliases the guests of "a" pass to http_call: an external URL with a
\* GLOBAL binding and one with none, a logical name with a binding and one
\* with none that name no tenant, and the name of tenant "a" itself.
CallAliases == {"http://up", "http://db", "db", "cache", "a"}

CallBindings ==
    [k \in {<<"a", "GLOBAL", "http://up">>, <<"a", "GLOBAL", "db">>} |->
        IF k[3] = "db" THEN "http://10.0.0.2/" ELSE "http://10.0.0.1/"]

CallResponses == {"2xx", "3xx", "4xx", "5xx", "err"}

\* The last instant of the runs of http_call, in milliseconds; a call
\* starts while the backoff of all its retries still fits.
CallClockMax == 14000

BackoffTotal == Backoff(1) + Backoff(2) + Backoff(3)

InitCall ==
    \E persp \in {EmptyMap, [a |-> "BLUE"]} :
        ServingIn([NoFile EXCEPT !.file = "ok", !.bindings = CallBindings], persp)

\* A step of the http_call that task 1 runs.
StepCall ==
    \/ StepEgress(1) \/ HcRate(1) \/ HcGate(1) \/ HcSend(1, CallClockMax)
    \/ \E r \in CallResponses : HcResponse(1, r)

\* One guest of tenant "a" calling http_call, one call at a time, with
\* upstreams that answer anything; every await of the call returns.
NextCall ==
    \/ \E alias \in CallAliases :
            /\ now + BackoffTotal <= CallClockMax
            /\ HostHttpCall(1, "a", alias, "GET") /\ UNCHANGED <<snap, granted>>
    \/ StepEgress(1) /\ UNCHANGED <<snap, granted>>
    \/ HcRate(1) /\ UNCHANGED <<snap, granted>>
    \/ HcGate(1) /\ UNCHANGED <<snap, granted>>
    \/ HcSend(1, CallClockMax) /\ UNCHANGED <<snap, granted>>
    \/ \E r \in CallResponses : HcResponse(1, r) /\ UNCHANGED <<snap, granted>>

SpecCall ==
    InitCall /\ [][NextCall]_vars /\ WF_vars(StepCall /\ UNCHANGED <<snap, granted>>)

\* The binding keys and manifest entries session.json may hold when resolve
\* is called, each binding with a URL of its own.
ResolveKeys ==
    <<  <<"a", "GREEN", "x">>,  <<"a", "GREEN", "y">>,  <<"a", "BLUE", "x">>,
        <<"a", "GLOBAL", "x">>, <<"a", "GLOBAL", "y">>, <<"a", "GLOBAL", "z">>,
        <<"e", "GREEN", "x">>,  <<"e", "GLOBAL", "y">> >>

ResolveUrls == <<"u1", "u2", "u3", "u4", "u5", "u6", "u7", "u8">>

BindingTables ==
    {[k \in {ResolveKeys[i] : i \in I} |->
            ResolveUrls[CHOOSE i \in I : ResolveKeys[i] = k]] :
        I \in SUBSET (1 .. Len(ResolveKeys))}

ManifestEntries ==
    [k \in {<<"a", "x">>, <<"a", "y">>, <<"e", "x">>} |->
        IF k = <<"a", "y">> THEN "z" ELSE "y"]

ManifestTables ==
    {[k \in K |-> ManifestEntries[k]] : K \in SUBSET DOMAIN ManifestEntries}

InitResolve ==
    \E b \in BindingTables : \E m \in ManifestTables :
        ServingIn([NoFile EXCEPT !.file = "ok", !.bindings = b,
                                 !.has_manifests = TRUE, !.manifests = m], EmptyMap)

\* Calls of egress.resolve for either tenant, either logical name and
\* either environment, over every table session.json may have loaded.
NextResolve ==
    \E id \in {"a", "e"} : \E name \in {"x", "y"} : \E env \in {"GREEN", "BLUE"} :
        EgressResolve(1, id, name, env) /\ UNCHANGED <<snap, granted>>

SpecResolve == InitResolve /\ [][NextResolve]_vars

\* The session.json contents /admin/reload-bindings may find: two files
\* that share the binding of "http://up" and differ in the rest, the second
\* without a manifests section, an empty JSON object, and no file at all.
FileOne ==
    [file |-> "ok",
     bindings |-> [k \in {<<"a", "GLOBAL", "http://up">>, <<"a", "GREEN", "db">>} |->
                        IF k[3] = "db" THEN "http://10.0.0.2/" ELSE "http://10.0.0.1/"],
     has_manifests |-> TRUE,
     manifests |-> [k \in {<<"a", "store">>} |-> "db"],
     public_keys |-> [a |-> "k1"],
     upstream |-> [a |-> 1]]

FileTwo ==
    [file |-> "ok",
     bindings |-> [k \in {<<"a", "GLOBAL", "http://up">>, <<"a", "BLUE", "db">>} |->
                        IF k[3] = "db" THEN "http://10.0.0.3/" ELSE "http://10.0.0.1/"],
     has_manifests |-> FALSE,
     manifests |-> EmptyMap,
     public_keys |-> [e |-> "k2"],
     upstream |-> EmptyMap]

EmptyFile == [NoFile EXCEPT !.file = "ok"]

ReloadConfigs == {FileOne, FileTwo, EmptyFile, NoFile}

\* /admin/reload-bindings called again and again, one call at a time, from
\* the empty tables the Shell is constructed with; between two reloads a
\* caller resolves a name.
NextReload ==
    \/ \E cfg \in ReloadConfigs : ReloadRoute(1, cfg) /\ UNCHANGED <<snap, granted>>
    \/ StepReload(1) /\ granted' = GrantedAfter(1) /\ UNCHANGED snap
    \/ \E name \in {"http://up", "db", "store"} : \E env \in {"GREEN", "BLUE"} :
            EgressResolve(1, "a", name, env) /\ UNCHANGED <<snap, granted>>

SpecReload == Init /\ [][NextReload]_vars

\* The callers of resolve while /admin/reload-bindings reloads a file that
\* holds, like the one loaded before it, the binding of "http://up".
NextReloadRace ==
    \/ \E p \in Tasks : \E cfg \in {FileOne, FileTwo} :
            /\ \A q \in Tasks : task[q].op # "reload" \/ Free(q)
            /\ ReloadRoute(p, cfg) /\ UNCHANGED <<snap, granted>>
    \/ \E p \in Tasks : StepReload(p) /\ granted' = GrantedAfter(p) /\ UNCHANGED snap
    \/ \E p \in Tasks : \E name \in {"http://up", "db"} :
            EgressResolve(p, "a", name, "GREEN") /\ UNCHANGED <<snap, granted>>

SpecReloadRace == Serving(FileOne) /\ [][NextReloadRace]_vars

\* Whether invoke_health finds the module instantiable.
ProbeResults == {"Healthy", "Unhealthy"}

\* The Shell with tenant "a" serving and the health loop running beside the
\* socket deploys, the retires and the invocations of tenants "a" and "e";
\* read guards are not handed out past a queued writer.
InitHealth == \E persp \in {EmptyMap, [a |-> "BLUE"]} : ServingIn(NoFile, persp)

StepHealth(p) ==
    HsLock(p) \/ HsNext(p) \/ (\E st \in ProbeResults : HsProbe(p, st)) \/ HsStatus(p)

NextHealth ==
    \/ \E p \in Tasks : HealthTick(p) /\ UNCHANGED <<snap, granted, resilience, egress>>
    \/ \E p \in Tasks : StepHealth(p) /\ UNCHANGED <<snap, granted, resilience, egress>>
    \/ \E p \in Tasks : AcceptSocket(p, ActiveIds, RaceInputs) /\ UNCHANGED <<snap, granted, resilience, egress>>
    \/ \E p \in Tasks : ~WriterQueued /\ DkLen(p) /\ UNCHANGED <<snap, granted, resilience, egress>>
    \/ \E p \in Tasks : DkRegisterLocked(p) /\ UNCHANGED <<snap, granted, resilience, egress>>
    \/ \E p \in Tasks : DkWrite(p) /\ UNCHANGED <<snap, granted, resilience, egress>>
    \/ \E p \in Tasks : DkStatus(p) /\ UNCHANGED <<snap, granted, resilience, egress>>
    \/ \E p \in Tasks : AcceptInvoke(p) /\ UNCHANGED <<snap, granted, resilience, egress>>
    \/ \E p \in Tasks : (RqPerspective(p) \/ RqRun(p) \/ RqReturn(p)) /\ UNCHANGED <<snap, granted, resilience, egress>>
    \/ \E p \in Tasks : ~WriterQueued /\ RqGet(p) /\ UNCHANGED <<snap, granted, resilience, egress>>
    \/ \E tid \in ActiveIds : \E env \in RetireEnvs(tid) :
            RetireLocked(tid, env) /\ UNCHANGED <<snap, granted, resilience, egress>>

SpecHealth == InitHealth /\ [][NextHealth]_vars

\* Tenants "a" and "e" each bind the alias "http://up" to an upstream of
\* their own; a's upstream answers 2xx or 4xx, e's always 2xx.
SharedAliasBinding ==
    [k \in {<<"a", "GLOBAL", "http://up">>, <<"e", "GLOBAL", "http://up">>} |->
        IF k[1] = "a" THEN "http://10.0.0.1/" ELSE "http://10.0.0.9/"]

UpstreamAnswers(tid) == IF tid = "a" THEN {"2xx", "4xx"} ELSE {"2xx"}

\* Guests of the two tenants calling http_call on the alias at one instant.
NextShared ==
    \/ \E p \in Tasks : \E tid \in {"a", "e"} :
            HostHttpCall(p, tid, "http://up", "GET") /\ UNCHANGED <<snap, granted>>
    \/ \E p \in Tasks : StepEgress(p) /\ UNCHANGED <<snap, granted>>
    \/ \E p \in Tasks : HcRate(p) /\ UNCHANGED <<snap, granted>>
    \/ \E p \in Tasks : HcGate(p) /\ UNCHANGED <<snap, granted>>
    \/ \E p \in Tasks : HcSend(p, 0) /\ UNCHANGED <<snap, granted>>
    \/ \E p \in Tasks : \E r \in UpstreamAnswers(task[p].tid) :
            HcResponse(p, r) /\ UNCHANGED <<snap, granted>>

SpecShared == Booted(SharedAliasBinding) /\ [][NextShared]_vars

\* What callers ask the bridge for, and the fuel a stretch of guest code
\* burns.
BridgeKinds == {"call", "reflect", "health"}

RequestedFuncs == {"get-user", "ping", "nosuch"}

Queries == {"{}", "q1"}

GuestCosts == {400000, 600000}

\* Tenants "a" and "e" deployed GREEN, each with either module.
InitBridge ==
    \E ma, me \in {"m1", "m2"} :
        /\ tenants = RegisterTenant(RegisterTenant(EmptyMap, "a", "GREEN",
                                                   TenantInstance("a", ma)),
                                    "e", "GREEN", TenantInstance("e", me))
        /\ regd = [k \in {<<"a", "GREEN">>, <<"e", "GREEN">>} |->
                        TenantInstance(k[1], IF k[1] = "a" THEN ma ELSE me)]
        /\ perspective = EmptyMap
        /\ audit_log = EmptyMap
        /\ statuses = {"a", "e"}
        /\ task = [p \in Tasks |-> IdleTask]
        /\ snap = Tables
        /\ granted = EmptyMap
        /\ now = 0
        /\ public_keys = EmptyMap
        /\ upstream_buckets = EmptyMap
        /\ downstream_buckets = EmptyMap
        /\ breakers = EmptyMap
        /\ bindings = EmptyMap
        /\ manifests = EmptyMap

\* Concurrent invocations of the two tenants through the bridge.
NextBridge ==
    \/ \E p \in Tasks : \E k \in BridgeKinds : \E tid \in ActiveIds :
        \E f \in RequestedFuncs : \E q \in Queries :
            /\ k # "call" => f = "ping" /\ q = "{}"
            /\ BridgeInvoke(p, k, tid, IF k = "call" THEN f ELSE "",
                            IF k = "call" THEN q ELSE "")
            /\ UNCHANGED <<snap, granted, resilience, egress>>
    \/ \E p \in Tasks : BrInstantiate(p) /\ UNCHANGED <<snap, granted, resilience, egress>>
    \/ \E p \in Tasks : BrFind(p) /\ UNCHANGED <<snap, granted, resilience, egress>>
    \/ \E p \in Tasks : \E c \in GuestCosts :
            BrRun(p, c) /\ UNCHANGED <<snap, granted, resilience, egress>>
    \/ \E p \in Tasks : BrReturn(p) /\ UNCHANGED <<snap, granted, resilience, egress>>

SpecBridge == InitBridge /\ [][NextBridge]_vars

\* The session.json that registers the key k1 for tenant "a".
KeyedFile == SessionFile([a |-> "k1"], EmptyMap)

\* Requests to /a/<func> passing the guards while /admin/reload-bindings
\* reloads the unchanged session.json that holds tenant a's key.
NextGateRace ==
    \/ \E p \in Tasks : \E h \in AuthHeaders :
            /\ Len(Grants("a")) < MaxGrants
            /\ GuardedRoute(p, "GET", "a", h) /\ UNCHANGED <<snap, granted>>
    \/ \E p \in Tasks : StepGuards(p) /\ granted' = GrantedAfter(p) /\ UNCHANGED snap
    \/ \E p \in Tasks : StepInvoke(p) /\ UNCHANGED <<snap, granted, resilience, egress>>
    \/ \E p \in Tasks :
            /\ \A q \in Tasks : task[q].op # "reload" \/ Free(q)
            /\ ReloadRoute(p, KeyedFile) /\ UNCHANGED <<snap, granted>>
    \/ \E p \in Tasks : StepReload(p) /\ granted' = GrantedAfter(p) /\ UNCHANGED snap

SpecGateRace == Serving(KeyedFile) /\ [][NextGateRace]_vars

\* The session.json that limits tenant "a" to one request per second.
RateFile == [SessionFile(EmptyMap, [a |-> 1]) EXCEPT !.bindings = UpstreamBinding]

\* granted after a step of task p, kept across reloads: a request let
\* through by check_upstream is added.
AdmittedAfter(p) ==
    IF task[p].pc = "gt_rate" /\ task'[p].pc = "gt_key"
    THEN Put(granted, task[p].tid, Append(Grants(task[p].tid), now))
    ELSE granted

\* Requests to /a/<func> drawing on the tenant's upstream bucket while
\* /admin/reload-bindings reloads the unchanged session.json and time
\* passes.
NextRateReload ==
    \/ \E p \in Tasks :
            /\ Len(Grants("a")) < MaxGrants
            /\ GuardedRoute(p, "GET", "a", NoAuth) /\ UNCHANGED <<snap, granted>>
    \/ \E p \in Tasks : StepGuards(p) /\ granted' = AdmittedAfter(p) /\ UNCHANGED snap
    \/ \E p \in Tasks : StepInvoke(p) /\ UNCHANGED <<snap, granted, resilience, egress>>
    \/ \E p \in Tasks :
            /\ \A q \in Tasks : task[q].op # "reload" \/ Free(q)
            /\ ReloadRoute(p, RateFile) /\ UNCHANGED <<snap, granted>>
    \/ \E p \in Tasks : StepReload(p) /\ UNCHANGED <<snap, granted>>
    \/ \E d \in RateTicks : Tick(d, RateClockMax) /\ UNCHANGED <<snap, granted>>

SpecRateReload == Serving(RateFile) /\ [][NextRateReload]_vars

\* The inputs of the handlers run beside a tenant's audited egress.
AuditInputs ==
    [wasm    |-> {"b64:m2"},
     targets |-> {"red", "GREEN"},
     ccp     |-> {"norecord", "b64:m3"}]

\* Aliases the guest passes that no binding of FileOne resolves: one that
\* the security boundary stops and one that it lets through.
AuditAliases == {"cache", "http://db"}

DbOutcomes == {"unparsable", "noprovider", "failed", "rows"}

\* Entries a tenant's audit log holds before the last egress calls start.
MaxAudit == 2

AuditOf(log, tid) == IF tid \in DOMAIN log THEN log[tid] ELSE <<>>

\* Tenant "a" serving: its guest calls http_call and db_execute while the
\* operator switches its perspective into and out of RED, deploys, retires
\* and reloads session.json; a socket deploy and a reload are accepted while
\* the other task is idle.
NextAudit ==
    \/ \E p \in Tasks : \E alias \in AuditAliases :
            /\ Len(AuditOf(audit_log, "a")) < MaxAudit
            /\ HostHttpCall(p, "a", alias, "POST") /\ UNCHANGED <<snap, granted>>
    \/ \E p \in Tasks : StepEgress(p) /\ UNCHANGED <<snap, granted>>
    \/ \E p \in Tasks : \E q \in {"", "q1"} :
            /\ Len(AuditOf(audit_log, "a")) < MaxAudit
            /\ HostDbExecute(p, "a", "db", q) /\ UNCHANGED <<snap, granted>>
    \/ \E p \in Tasks : DbEnv(p) /\ UNCHANGED <<snap, granted>>
    \/ \E p \in Tasks : \E o \in DbOutcomes : DbQuery(p, o) /\ UNCHANGED <<snap, granted>>
    \/ \E p \in Tasks : AcceptSwitch(p, AuditInputs) /\ UNCHANGED <<snap, granted, resilience, egress>>
    \/ \E p \in Tasks : StepSwitch(p, AuditInputs) /\ UNCHANGED <<snap, granted, resilience, egress>>
    \/ \E p \in Tasks : UpAudit(p) /\ UNCHANGED <<snap, granted, resilience, egress>>
    \/ Free(2) /\ AcceptSocket(1, TargetIds, AuditInputs) /\ UNCHANGED <<snap, granted, resilience, egress>>
    \/ \E p \in Tasks : StepDeploy(p) /\ UNCHANGED <<snap, granted, resilience, egress>>
    \/ Retire(TargetIds) /\ UNCHANGED <<snap, granted, resilience, egress>>
    \/ Free(1) /\ ReloadRoute(2, FileOne) /\ UNCHANGED <<snap, granted>>
    \/ StepReload(2) /\ UNCHANGED <<snap, granted>>

SpecAudit == Serving(NoFile) /\ [][NextAudit]_vars

\* ----------------------------------------------------------------- claims

\* The slot of (id, env) in a slot table, read without get_tenant.
SlotOf(ten, id, env) ==
    IF id \in DOMAIN ten /\ env \in DOMAIN ten[id] THEN ten[id][env] ELSE NoInstance

\* Every (tenant, env) key of a slot table.
SlotKeys(ten) == UNION {{<<id, env>> : env \in DOMAIN ten[id]} : id \in DOMAIN ten}

\* Task record t (now t2) has just had deploy_kernel answer the capacity
\* error: to the accept loop, or through update_perspective to its caller.
CapacityRejected(t, t2) ==
    /\ t.pc \in {"dk_len", "dk_contains"}
    /\ \/ t.stage = "sock" /\ t2.pc = "up_get" /\ t2.dres = "err_capacity"
       \/ t.stage = "cold" /\ t2.pc = "done" /\ t2.res = "err_capacity"

\* C1: under any interleaving of deploys (socket and cold switch) and
\* retires, the slot table never holds more than 4 distinct tenant ids.
C1_AtMostFourTenants == Cardinality(DOMAIN tenants) <= MaxTenants

C1_FiveTenants == Cardinality(DOMAIN tenants) = MaxTenants + 1

\* C2: with handlers run one at a time, a deploy passes the capacity check
\* unless 4 (or more) tenants are present and its tenant id is not among
\* them, and then it is rejected with the capacity error: a 5th tenant is
\* rejected, a further env of a present tenant and any deploy below 4
\* tenants are not.
C2_CapacityDecision ==
    [][\A p \in Tasks :
        LET t     == task[p]
            t2    == task'[p]
            fifth == /\ Cardinality(DOMAIN tenants) >= MaxTenants
                     /\ t.tid \notin DOMAIN tenants
        IN  (t.pc \in {"dk_len", "dk_contains"} /\ t2 # t) =>
                /\ t2.pc = "dk_register" => ~fifth
                /\ CapacityRejected(t, t2) => fifth
                /\ \/ t2.pc \in {"dk_contains", "dk_register"}
                   \/ CapacityRejected(t, t2)
    ]_vars

C2_FifthRejected ==
    \E p \in Tasks :
        /\ task[p].pc = "up_get" /\ task[p].dres = "err_capacity"
        /\ Cardinality(DOMAIN tenants) = MaxTenants
        /\ task[p].tid \notin DOMAIN tenants

\* C3: the slot table has an entry for (tenant, env) iff a module was
\* deployed there and not retired since, no tenant id maps to an empty
\* environment map, and list_tenants is the set of tenants with an entry.
C3_SlotsAreLiveDeploys ==
    /\ SlotKeys(tenants) = DOMAIN regd
    /\ \A id \in DOMAIN tenants : DOMAIN tenants[id] # {}
    /\ ListTenants(tenants) = {k[1] : k \in DOMAIN regd}

C3_LastEnvRetired ==
    /\ "a" \in statuses
    /\ "a" \notin ListTenants(tenants)
    /\ "b" \in ListTenants(tenants)
    /\ \A p \in Tasks : task[p].tid # "a"

\* The perspective named for id in the Perspective Table, GREEN without one.
ActiveEnv(persp, id) == IF id \in DOMAIN persp THEN persp[id] ELSE "GREEN"

\* C4: get(tenant, env) returns the instance most recently registered into
\* (tenant, env) and not removed since, none otherwise: a second register
\* into an occupied slot replaces that slot's reference and no other.
C4_GetReturnsLastRegistered ==
    \A id \in TenantIds : \A env \in {"GREEN", "BLUE", "RED", "green", "blue"} :
        GetTenant(tenants, id, env) =
            IF <<id, ToUpper(env)>> \in DOMAIN regd
            THEN regd[<<id, ToUpper(env)>>]
            ELSE NoInstance

C4_HotSwapped ==
    /\ SlotOf(snap.tenants, "a", "GREEN") = TenantInstance("a", "m1")
    /\ GetTenant(tenants, "a", "green") = TenantInstance("a", "m2")
    /\ SlotOf(tenants, "a", "BLUE") = TenantInstance("a", "m3")
    /\ SlotOf(snap.tenants, "a", "BLUE") = TenantInstance("a", "m3")

\* C5: a deploy that fails, through the socket or through a cold
\* perspective switch, leaves the slot table and the Perspective Table as
\* they were.
C5_FailedDeployNoEffect ==
    [][\A p \in Tasks :
        LET t  == task[p]
            t2 == task'[p]
            DeployErrors == {"err_capacity", "err_decode", "err_compile"}
        IN  /\ (t.op = "socket" /\ t.dres \in DeployErrors) =>
                    /\ tenants' = tenants
                    /\ perspective' = perspective
            /\ (t.op = "switch" /\ t.pc # "done" /\ t2.pc = "done"
                    /\ t2.res \in DeployErrors) =>
                    /\ tenants' = snap.tenants
                    /\ perspective' = snap.perspective
    ]_vars

\* C6: an invocation or reflect reads the tenant's perspective (GREEN
\* without an entry) and is dispatched to exactly that slot; when the slot
\* is empty it fails with slot-not-found and no guest code runs.
C6_DispatchToActiveSlot ==
    [][\A p \in Tasks :
        LET t  == task[p]
            t2 == task'[p]
        IN  /\ (t.pc = "rq_persp" /\ t2 # t) =>
                    /\ t2.pc = "rq_get"
                    /\ t2.env = ActiveEnv(perspective, t.tid)
            /\ (t.pc = "rq_get" /\ t2 # t) =>
                    IF SlotOf(tenants, t.tid, t.env) = NoInstance
                    THEN t2.pc = "done" /\ t2.res = "err_slot" /\ t2.ran = NoInstance
                    ELSE t2.pc = "rq_run" /\ t2.inst = SlotOf(tenants, t.tid, t.env)
            /\ (t2.ran # t.ran /\ t2.ran # NoInstance) => t.pc = "rq_run"
    ]_vars

C6_SlotNotFoundWhileDeployedElsewhere ==
    \E p \in Tasks :
        /\ task[p].op \in {"call", "reflect"}
        /\ task[p].pc = "done" /\ task[p].res = "err_slot"
        /\ SlotOf(tenants, task[p].tid, ActiveEnv(perspective, task[p].tid)) = NoInstance
        /\ SlotOf(tenants, task[p].tid, "GREEN") # NoInstance

\* C7: whenever update_perspective(tenant, target) returns success,
\* perspective[tenant] = target and slot (tenant, target) holds a module.
C7_SwitchOkMeansSlotDeployed ==
    [][\A p \in Tasks :
        LET t  == task[p]
            t2 == task'[p]
        IN  (t.op \in {"switch", "socket"} /\ t.pc # "done" /\ t2.pc = "done"
                /\ t2.res = "ok") =>
                /\ t.tid \in DOMAIN perspective'
                /\ perspective'[t.tid] = ToUpper(t.target)
                /\ SlotOf(tenants', t.tid, ToUpper(t.target)) # NoInstance
    ]_vars

\* C8: a perspective switch is atomic with respect to requests. A request
\* whose slot lookup completed before the switch (or a re-deploy or retire
\* of the slot) executes the module it looked up until the call returns; a
\* request whose slot lookup happens after the switch executes the module in
\* the slot the Perspective Table then names; no request executes a module
\* from a slot other than the one named by the perspective it read.
C8_SwitchAtomicForRequests ==
    [][\A p \in Tasks :
        LET t      == task[p]
            t2     == task'[p]
            target == SlotOf(tenants, t.tid, ActiveEnv(perspective, t.tid))
        IN  /\ (t.pc = "rq_run" /\ t2.pc = "rq_run") =>
                    /\ t2.inst = t.inst
                    /\ t2.ran \in {t.ran, t.inst}
            /\ (t.pc = "rq_get" /\ t2 # t /\ target # NoInstance) =>
                    t2.pc = "rq_run" /\ t2.inst = target
            /\ (t.pc = "rq_get" /\ t2.pc = "rq_run") =>
                    t2.inst = SlotOf(tenants, t.tid, t.env)
    ]_vars

\* C9: when the target slot is empty and the CCP cannot be reached, its
\* answer cannot be read or the fetched module fails to deploy,
\* update_perspective returns an error and the Perspective Table, the audit
\* log and the slot table are as they were before the call.
C9_FailedSwitchNoEffect ==
    [][\A p \in Tasks :
        LET t  == task[p]
            t2 == task'[p]
            SwitchErrors == {"err_ccp", "err_json", "err_capacity",
                             "err_decode", "err_compile"}
        IN  /\ (t.pc = "up_fetch" /\ t2 # t
                    /\ t2.ccp \in {"unreachable", "unreadable"}) =>
                    t2.pc = "done" /\ t2.res \in {"err_ccp", "err_json"}
            /\ (t.stage = "cold" /\ t.pc = "dk_register" /\ t2 # t
                    /\ t.wasm \in {"!!", "b64:junk"}) =>
                    t2.pc = "done" /\ t2.res \in {"err_decode", "err_compile"}
            /\ (t.stage = "cold" /\ t.pc = "dk_contains" /\ t2 # t
                    /\ t.tid \notin DOMAIN tenants) =>
                    t2.pc = "done" /\ t2.res = "err_capacity"
            /\ (t.op \in {"switch", "socket"} /\ t.pc # "done" /\ t2.pc = "done"
                    /\ t2.res \in SwitchErrors) =>
                    /\ perspective' = snap.perspective
                    /\ audit_log' = snap.audit_log
                    /\ tenants' = snap.tenants
    ]_vars

C9_CcpUnreachable ==
    \E p \in Tasks :
        /\ task[p].op = "switch" /\ task[p].pc = "done"
        /\ task[p].ccp = "unreachable" /\ task[p].res = "err_ccp"
        /\ "a" \in DOMAIN tenants
        /\ "a" \in DOMAIN perspective

\* The module a base64 string received on the socket carries.
Received(b64) == IF b64 = "b64:m1" THEN "m1" ELSE IF b64 = "b64:m2" THEN "m2" ELSE "?"

\* C10: after a well-formed socket message whose deploy succeeded, slot
\* (tenant, GREEN) holds the received module and perspective[tenant] is
\* GREEN whatever it was; no other slot of any tenant has changed.
C10_SocketDeployGoesGreen ==
    [][\A p \in Tasks :
        LET t  == task[p]
            t2 == task'[p]
        IN  (t.op = "socket" /\ t.dres = "ok" /\ t.pc # "done" /\ t2.pc = "done") =>
                /\ t2.res = "ok"
                /\ SlotOf(tenants', t.tid, "GREEN") =
                        TenantInstance(t.tid, Received(t.wasm))
                /\ t.tid \in DOMAIN perspective'
                /\ perspective'[t.tid] = "GREEN"
                /\ SlotKeys(tenants') = SlotKeys(snap.tenants) \cup {<<t.tid, "GREEN">>}
                /\ \A k \in SlotKeys(snap.tenants) \ {<<t.tid, "GREEN">>} :
                        SlotOf(tenants', k[1], k[2]) = SlotOf(snap.tenants, k[1], k[2])
    ]_vars

C10_DeployedWhileBlueActive ==
    \E p \in Tasks :
        /\ task[p].op = "socket" /\ task[p].pc = "done"
        /\ task[p].dres = "ok" /\ task[p].res = "ok"
        /\ task[p].tid \in DOMAIN snap.perspective
        /\ snap.perspective[task[p].tid] = "BLUE"
        /\ SlotOf(snap.tenants, task[p].tid, "BLUE") # NoInstance
        /\ perspective[task[p].tid] = "GREEN"

\* The closed set of environments.
Envs == {"GREEN", "BLUE", "RED"}

\* C11: in every reachable state every environment key of the slot table
\* and every value of the Perspective Table is one of GREEN, BLUE, RED.
C11_EnvsClosed ==
    /\ \A k \in SlotKeys(tenants) : k[2] \in Envs
    /\ \A id \in DOMAIN perspective : perspective[id] \in Envs

\* The breaker of the alias the guests call, in a breaker map.
BreakerOf(brk) == BreakerEntry(brk, "http://up")

\* Milliseconds since the breaker's last failure.
SinceLastFailure(b) == now - b.last_failure[1]

\* C16: from Closed with failure_count 0 the breaker opens exactly at the
\* 5th failure of an uninterrupted run: every failure adds one to the
\* count, a success resets it to 0 and closes the breaker, a Closed breaker
\* has counted fewer than 5 failures, and it turns Open on the failure that
\* makes the count 5 and on no other.
C16_OpensAtFifthFailure ==
    [][LET b  == BreakerOf(breakers)
           b2 == BreakerOf(breakers')
       IN  /\ b.state = "Closed" => b.failure_count < 5
           /\ b2.failure_count # b.failure_count =>
                \/ b2.failure_count = 0 /\ b2.state = "Closed"
                \/ b2.failure_count = b.failure_count + 1
           /\ (b.state = "Closed" /\ b2.failure_count = b.failure_count + 1) =>
                b2.state = IF b2.failure_count = 5 THEN "Open" ELSE "Closed"
           /\ \A p \in Tasks :
                /\ (task[p].pc = "hc_wait" /\ task'[p].res = "4xx body") =>
                        b2.failure_count = b.failure_count + 1
                /\ (task[p].pc = "hc_wait" /\ task'[p].res = "2xx body") =>
                        b2.failure_count = 0 /\ b2.state = "Closed"
    ]_vars

C16_OpenedAtFive ==
    /\ BreakerOf(breakers).state = "Open"
    /\ BreakerOf(breakers).failure_count = 5
    /\ BreakerOf(breakers).last_failure = <<now>>
    /\ \E p \in Tasks : task[p].pc = "done" /\ task[p].res = "4xx body"

\* C17: an Open breaker's should_allow answers false and leaves it Open
\* while fewer than 30 s have passed since the last failure; once 30 s have
\* passed it answers true and makes the breaker Half-Open, and a success
\* reported then makes it Closed with failure_count 0.
C17_CooldownIsThirtySeconds ==
    [][\A p \in Tasks :
        LET t  == task[p]
            t2 == task'[p]
            b  == BreakerOf(breakers)
            b2 == BreakerOf(breakers')
        IN  /\ (t.pc = "hc_gate" /\ t2 # t /\ b.state = "Open") =>
                    IF SinceLastFailure(b) < 30 * 1000
                    THEN t2.pc = "done" /\ b2 = b
                    ELSE t2.pc = "hc_send" /\ b2.state = "HalfOpen"
            /\ (t.pc = "hc_wait" /\ t2.res = "2xx body" /\ b.state = "HalfOpen") =>
                    b2.state = "Closed" /\ b2.failure_count = 0
    ]_vars

\* C18: while the breaker is Half-Open one call is the probe; a further
\* http_call reaching the breaker gate before the probe's outcome is
\* reported is not admitted to send.
C18_OneProbeWhileHalfOpen ==
    [][\A p \in Tasks :
        LET t  == task[p]
            t2 == task'[p]
        IN  (/\ t.pc = "hc_gate" /\ t2 # t
             /\ BreakerOf(breakers).state = "HalfOpen"
             /\ \E q \in Tasks \ {p} : task[q].pc \in {"hc_send", "hc_wait"}) =>
                t2.pc = "done" /\ t2.sent = 0
    ]_vars

\* C19: an http_call reaching the gate while the breaker is Open and fewer
\* than 30 s have passed since the last failure returns "Error: Circuit
\* Breaker Open" having sent no outbound request, and leaves the breaker's
\* state, failure_count and last_failure as they were.
C19_OpenRefusesWithoutSending ==
    [][\A p \in Tasks :
        LET t  == task[p]
            t2 == task'[p]
            b  == BreakerOf(breakers)
        IN  (/\ t.pc = "hc_gate" /\ t2 # t
             /\ b.state = "Open" /\ SinceLastFailure(b) < 30 * 1000) =>
                /\ t2.pc = "done"
                /\ t2.res = "Error: Circuit Breaker Open"
                /\ t.sent = 0 /\ t2.sent = 0
                /\ breakers' = breakers
    ]_vars

C19_RefusedWhileOpen ==
    \E p \in Tasks :
        /\ task[p].op = "http_call" /\ task[p].pc = "done"
        /\ task[p].res = "Error: Circuit Breaker Open" /\ task[p].sent = 0
        /\ BreakerOf(breakers).state = "Open"
        /\ SinceLastFailure(BreakerOf(breakers)) = 15000

\* C20: against an upstream that always answers 500 every http_call that
\* exhausts its retries is one breaker failure (the retried answers are
\* none), five of them open the breaker, a call reaching the gate within
\* the 30 s cooldown is refused without contacting upstream, and a call
\* reaching it after more than 30 s contacts upstream again.
C20_ExhaustedCallsOpenTheBreaker ==
    [][\A p \in Tasks :
        LET t  == task[p]
            t2 == task'[p]
            b  == BreakerOf(breakers)
            b2 == BreakerOf(breakers')
        IN  /\ (t.pc = "hc_wait" /\ t2.pc = "hc_send") => breakers' = breakers
            /\ (t.pc = "hc_wait" /\ t2.pc = "done") =>
                    /\ t2.res = "Error: Downstream FAILED after 3 retries"
                    /\ t2.sent = 4
                    /\ b2.failure_count = b.failure_count + 1
                    /\ b2.state = IF b2.failure_count >= 5 THEN "Open" ELSE b.state
            /\ (t.pc = "hc_gate" /\ t2 # t /\ b.state = "Open") =>
                    IF SinceLastFailure(b) <= 30 * 1000
                    THEN /\ t2.pc = "done" /\ t2.sent = 0
                         /\ t2.res = "Error: Circuit Breaker Open"
                    ELSE t2.pc = "hc_send"
    ]_vars

\* The Authorization header h carries a Bearer token signed by key and not
\* yet expired.
ValidBearer(h, key) == h.scheme = "Bearer" /\ h.signer = key /\ h.exp = "future"

\* C15: for a tenant with a registered public key a request gets past the
\* guards, and so to the guest, only with a Bearer token that validates
\* against that key; a request without a header, with a non-Bearer header or
\* with a token that fails validation is answered 401 before the guest is
\* looked up; a request of a tenant without a registered key is never
\* answered 401.
C15_KeyedTenantNeedsValidToken ==
    [][\A p \in Tasks :
        LET t     == task[p]
            t2    == task'[p]
            keyed == t.tid \in DOMAIN public_keys
            valid == keyed /\ ValidBearer(t.auth, public_keys[t.tid])
        IN  t.op = "call" /\ t2 # t =>
              /\ t.pc \in {"rq_persp", "rq_get", "rq_run"} /\ keyed => valid
              /\ t2.pc = "rq_persp" /\ keyed => valid
              /\ t.pc \in {"gt_key", "gt_jwt"} /\ keyed /\ ~valid =>
                    t2 = Done(t, "401") \/ (t.pc = "gt_key" /\ t2.pc = "gt_jwt")
              /\ t.pc \in {"gt_key", "gt_jwt"} /\ keyed /\ valid =>
                    t2.pc \in {"gt_jwt", "rq_persp"}
              /\ t.pc \in {"gt_key", "gt_jwt"} /\ ~keyed => t2.pc = "rq_persp"
              /\ t2.res = "401" => keyed /\ t.pc \in {"gt_key", "gt_jwt"}
      ]_vars

\* The guest of a tenant with a key runs for a request with a valid token
\* while another request of the tenant has been answered 401.
C15_ValidTokenRunsGuest ==
    \E p, q \in Tasks :
        /\ task[p].pc = "rq_run" /\ task[p].ran # NoInstance
        /\ task[p].tid \in DOMAIN public_keys
        /\ ValidBearer(task[p].auth, public_keys[task[p].tid])
        /\ task[q].pc = "done" /\ task[q].res = "401"

\* Every token bucket the TrafficController holds.
TokenBuckets ==
    {upstream_buckets[k] : k \in DOMAIN upstream_buckets}
        \cup {downstream_buckets[k] : k \in DOMAIN downstream_buckets}

\* C12: every token bucket, upstream per tenant and downstream per alias,
\* holds between 0 tokens and its capacity after any interleaving of
\* try_consume calls.
C12_TokensWithinCapacity ==
    \A b \in TokenBuckets : 0 <= b.tokens /\ b.tokens <= b.capacity

\* The upstream bucket of "a", full since it was loaded, met its first
\* request later and was refilled no further than its capacity, and the
\* downstream bucket of the alias has been drained below one token.
C12_ClampedAndDrained ==
    /\ "a" \in DOMAIN upstream_buckets
    /\ Len(Grants("a")) = 1 /\ Grants("a")[1] > 0
    /\ upstream_buckets["a"].tokens = upstream_buckets["a"].capacity - OneToken
    /\ \E k \in DOMAIN downstream_buckets : downstream_buckets[k].tokens < OneToken

\* The whole number of calls a bucket of rate R and capacity C may answer
\* true in a window of T milliseconds: ceil(R * T + C), with T in seconds.
WindowBound(R, C, T) == (R * T + C * 1000 + 999) \div 1000

\* C13: of the try_consume calls on a bucket of rate R and capacity C made
\* in any window of duration T, at most ceil(R * T + C) answer true.
C13_AtMostRatePlusBurst ==
    \A id \in DOMAIN granted \cap DOMAIN upstream_buckets :
        LET g == granted[id]
            b == upstream_buckets[id]
        IN  \A i, j \in 1 .. Len(g) :
                i <= j =>
                    j - i + 1 <= WindowBound(b.fill_rate, b.capacity \div OneToken,
                                             g[j] - g[i])

\* A configured bucket has answered true as often as the bound allows in a
\* window that saw it refill.
C13_BoundAttained ==
    \E id \in DOMAIN granted \cap DOMAIN upstream_buckets :
        LET g == granted[id]
            b == upstream_buckets[id]
        IN  \E i, j \in 1 .. Len(g) :
                /\ g[i] < g[j]
                /\ j - i + 1 > b.capacity \div OneToken
                /\ j - i + 1 = WindowBound(b.fill_rate, b.capacity \div OneToken,
                                           g[j] - g[i])

\* The upstream bucket a request of tenant id draws on, and its level once
\* refilled for the time passed since it was last looked at.
UpstreamBucketOf(id) ==
    IF id \in DOMAIN upstream_buckets THEN upstream_buckets[id]
    ELSE [capacity |-> DefaultUpstreamRate * OneToken,
          tokens |-> DefaultUpstreamRate * OneToken,
          fill_rate |-> DefaultUpstreamRate, last_filled |-> now]

LevelOf(b) == Min(b.tokens + (now - b.last_filled) * b.fill_rate, b.capacity)

\* C14: a GET to /<tenant>/<func> that finds the tenant's upstream bucket
\* without a whole token is answered 429 straight from the rate guard, the
\* guest not invoked, and one that finds a whole token goes on; the bucket
\* of "a" has the rate session.json configures and that of "e", which has
\* none, the default 100; at 1 rps a request less than a second after the
\* last admitted one, so any within 100 ms of it, gets 429.
C14_UpstreamLimitAtConfiguredRate ==
    [][/\ "a" \in DOMAIN upstream_buckets
       /\ upstream_buckets["a"].fill_rate \in ConfiguredRates
       /\ upstream_buckets["a"].capacity = upstream_buckets["a"].fill_rate * OneToken
       /\ "e" \in DOMAIN upstream_buckets =>
                upstream_buckets["e"].fill_rate = DefaultUpstreamRate
       /\ \A p \in Tasks :
            LET t  == task[p]
                t2 == task'[p]
                b  == UpstreamBucketOf(t.tid)
                g  == Grants(t.tid)
            IN  /\ t2.res = "429" /\ t2 # t => t.pc = "gt_rate"
                /\ t.pc = "gt_rate" /\ t2 # t =>
                      /\ LevelOf(b) < OneToken => t2 = Done(t, "429")
                      /\ LevelOf(b) >= OneToken => t2.pc = "gt_key"
                      /\ b.fill_rate = 1 /\ g # <<>> /\ now - g[Len(g)] < 1000 =>
                            t2 = Done(t, "429")
      ]_vars

\* At 1 rps, of two requests to /a/<func> within 100 ms the first runs the
\* guest and the second has been answered 429.
C14_SecondWithin100msRefused ==
    \E p, q \in Tasks :
        /\ upstream_buckets["a"].fill_rate = 1
        /\ Len(Grants("a")) = 1 /\ now - Grants("a")[1] <= 100
        /\ task[q].tid = "a" /\ task[q].pc = "rq_run" /\ task[q].ran # NoInstance
        /\ task[p].tid = "a" /\ task[p].pc = "done" /\ task[p].res = "429"

\* The positions of an http_call past its gates.
InRetryLoop(t) == t.op = "http_call" /\ t.pc \in {"hc_send", "hc_wait"}

\* The seconds waited before the k-th retry.
RetryWait(k) == CASE k = 1 -> 1 [] k = 2 -> 2 [] k = 3 -> 4 [] OTHER -> 0

\* C21: an http_call past the rate-limit and breaker gates sends at most 4
\* requests and then returns; each request after the first follows a 5xx
\* answer or a transport error and a wait of 1, 2 and 4 seconds before the
\* 1st, 2nd and 3rd retry; the call always comes to its return.
C21_AtMostFourAttempts ==
    /\ [][\A p \in Tasks :
            LET t  == task[p]
                t2 == task'[p]
            IN  InRetryLoop(t) /\ t2 # t =>
                  /\ t.sent <= 4 /\ t2.sent <= 4
                  /\ t.pc = "hc_send" =>
                        /\ t2.sent = t.sent + 1
                        /\ now' - now = RetryWait(t.sent) * 1000
                        /\ t.sent > 0 => t.resp \in {"5xx", "err"}
                  /\ t.pc = "hc_wait" =>
                        /\ t2.sent = t.sent
                        /\ t2.pc \in {"hc_send", "done"}
                        /\ t2.pc = "hc_send" => t2.resp \in {"5xx", "err"} /\ t.sent < 4
                        /\ t2.resp \in {"5xx", "err"} /\ t.sent < 4 => t2.pc = "hc_send"
         ]_vars
    /\ \A p \in Tasks : InRetryLoop(task[p]) ~> task[p].pc = "done"

\* An http_call has returned after 4 requests and 1 + 2 + 4 s of waiting.
C21_ExhaustedAfterFour ==
    \E p \in Tasks :
        /\ task[p].op = "http_call" /\ task[p].pc = "done"
        /\ task[p].sent = 4 /\ task[p].resp \in {"5xx", "err"}
        /\ now >= 7000

\* C22: an attempt answered 2xx or 3xx makes the http_call report success
\* on the alias's breaker (Closed, failure_count 0), return the response
\* body and send nothing more.
C22_SuccessOn2xxAnd3xx ==
    [][\A p \in Tasks :
        LET t  == task[p]
            t2 == task'[p]
        IN  t.op = "http_call" /\ t.pc = "hc_wait" /\ t2 # t
              /\ t2.resp \in {"2xx", "3xx"} =>
                /\ t2.pc = "done" /\ t2.sent = t.sent
                /\ t2.res = (IF t2.resp = "2xx" THEN "2xx body" ELSE "3xx body")
                /\ t.alias \in DOMAIN breakers'
                /\ breakers'[t.alias].state = "Closed"
                /\ breakers'[t.alias].failure_count = 0
      ]_vars

\* C23: an attempt answered 4xx makes the http_call report one failure on
\* the alias's breaker, return the response body and send nothing more.
C23_FailureOn4xxNoRetry ==
    [][\A p \in Tasks :
        LET t  == task[p]
            t2 == task'[p]
            b  == IF t.alias \in DOMAIN breakers THEN breakers[t.alias]
                  ELSE [state |-> "Closed", failure_count |-> 0, last_failure |-> <<>>]
        IN  t.op = "http_call" /\ t.pc = "hc_wait" /\ t2 # t /\ t2.resp = "4xx" =>
                /\ t2.pc = "done" /\ t2.sent = t.sent
                /\ t2.res = "4xx body"
                /\ t.alias \in DOMAIN breakers'
                /\ breakers'[t.alias].failure_count = b.failure_count + 1
                /\ breakers'[t.alias].last_failure = <<now>>
      ]_vars

\* An http_call has returned the body of a 4xx answer to its first and only
\* request, and the breaker has counted the failure.
C23_Returned4xxBody ==
    \E p \in Tasks :
        /\ task[p].op = "http_call" /\ task[p].pc = "done"
        /\ task[p].resp = "4xx" /\ task[p].res = "4xx body" /\ task[p].sent = 1
        /\ task[p].alias \in DOMAIN breakers
        /\ breakers[task[p].alias].failure_count = 1

\* The perspective tenant id's calls are made under.
PerspectiveOf(id) == IF id \in DOMAIN perspective THEN perspective[id] ELSE "GREEN"

\* The alias a guest of tenant id passed has no binding: none under the
\* tenant's perspective and none under GLOBAL, for the alias the manifest
\* maps it to if any.
Unbound(id, name) ==
    LET alias == IF <<id, name>> \in DOMAIN manifests THEN manifests[<<id, name>>]
                 ELSE name
    IN  /\ <<id, PerspectiveOf(id), alias>> \notin DOMAIN bindings
        /\ <<id, "GLOBAL", alias>> \notin DOMAIN bindings

\* C25: an http_call whose alias has no binding, under the tenant's
\* perspective or under GLOBAL, returns 0 to the guest, not an error
\* string, and sends no request.
C25_UnboundAliasReturnsZero ==
    [][\A p \in Tasks :
        LET t  == task[p]
            t2 == task'[p]
        IN  t.op = "http_call" /\ t.pc # "done" /\ t2.pc = "done"
              /\ Unbound(t.tid, t.alias) =>
                t2.res = "0" /\ t2.sent = 0
      ]_vars

\* The alias names a tenant deployed in the perspective of the caller id.
Promoted(id, alias) ==
    /\ alias \in DOMAIN tenants
    /\ PerspectiveOf(id) \in DOMAIN tenants[alias]

\* C26: an http_call whose alias does not start with "http" and names no
\* tenant deployed in the caller's perspective is refused at the security
\* boundary with an error string: it gets no further, sends nothing, and
\* the downstream buckets and the breakers are as they were.
C26_SecurityBoundaryRefuses ==
    [][\A p \in Tasks :
        LET t       == task[p]
            t2      == task'[p]
            outside == ~StartsWithHttp(t.alias) /\ ~Promoted(t.tid, t.alias)
        IN  t.op = "http_call" /\ outside =>
              /\ t.pc \in {"hc_env", "hc_boundary", "done"}
              /\ t.pc = "hc_boundary" /\ t2 # t =>
                    /\ t2.pc = "done" /\ t2.res = "Error: Security Boundary"
                    /\ t2.sent = 0
                    /\ downstream_buckets' = downstream_buckets
                    /\ breakers' = breakers
              /\ t.pc = "done" => t.res = "Error: Security Boundary" /\ t.sent = 0
      ]_vars

\* A call on the bound logical name "db", which names no tenant, has been
\* refused before any bucket or breaker existed.
C26_BoundAliasRefused ==
    \E p \in Tasks :
        /\ task[p].op = "http_call" /\ task[p].pc = "done" /\ task[p].alias = "db"
        /\ ~Unbound(task[p].tid, "db")
        /\ task[p].res = "Error: Security Boundary"
        /\ downstream_buckets = EmptyMap /\ breakers = EmptyMap

\* C24: resolve(tenant, name, env) takes the alias the manifest gives for
\* (tenant, name), or the name itself, in one substitution step, and
\* answers the binding of (tenant, env, alias) if there is one, else that of
\* (tenant, GLOBAL, alias) if there is one, else an error; the URL it
\* answers is never one bound under another tenant or another non-GLOBAL
\* environment.
C24_ResolveOrder ==
    \A p \in Tasks :
        LET t     == task[p]
            alias == IF <<t.tid, t.target>> \in DOMAIN manifests
                     THEN manifests[<<t.tid, t.target>>] ELSE t.target
            own   == <<t.tid, t.env, alias>>
            glob  == <<t.tid, "GLOBAL", alias>>
        IN  t.op = "resolve" /\ t.pc = "done" =>
              /\ own \in DOMAIN bindings => t.res = bindings[own]
              /\ own \notin DOMAIN bindings /\ glob \in DOMAIN bindings =>
                    t.res = bindings[glob]
              /\ own \notin DOMAIN bindings /\ glob \notin DOMAIN bindings => t.res = ""
              /\ t.res # "" =>
                    \A k \in DOMAIN bindings :
                        bindings[k] = t.res => k[1] = t.tid /\ k[2] \in {t.env, "GLOBAL"}

\* resolve("a", "x", "BLUE") has answered the GLOBAL binding of the alias
\* "y" the manifest gives for "x", with "y" itself mapped on to a bound "z"
\* and "x" bound under BLUE.
C24_SubstitutedThenGlobal ==
    \E p \in Tasks :
        /\ task[p].op = "resolve" /\ task[p].pc = "done"
        /\ task[p].tid = "a" /\ task[p].target = "x" /\ task[p].env = "BLUE"
        /\ <<"a", "x">> \in DOMAIN manifests /\ <<"a", "y">> \in DOMAIN manifests
        /\ <<"a", "BLUE", "x">> \in DOMAIN bindings
        /\ <<"a", "GLOBAL", "z">> \in DOMAIN bindings
        /\ <<"a", "GLOBAL", "y">> \in DOMAIN bindings
        /\ task[p].res = bindings[<<"a", "GLOBAL", "y">>]

\* C27: once a reload of a readable, well-formed session.json has got past
\* the binding table, and no other reload runs, the table holds exactly the
\* bindings of the file: each of them with the file's URL and none left of
\* an earlier load.
C27_BindingsReflectFile ==
    \A p \in Tasks :
        LET t == task[p]
        IN  /\ t.op = "reload" /\ t.cfg.file = "ok"
            /\ t.pc \notin {"rl_clear_bindings", "rl_load_bindings"}
            => bindings = t.cfg.bindings

\* The reload of the second file has completed on tables the first file
\* had loaded: the first file's manifest is still there.
C27_ReloadedOverEarlierLoad ==
    \E p \in Tasks :
        /\ task[p].op = "reload" /\ task[p].pc = "done" /\ task[p].cfg = FileTwo
        /\ manifests = FileOne.manifests
        /\ bindings = FileTwo.bindings

\* C29: a reload that finds no session.json treats it as an empty
\* registry: afterwards the binding table, the manifest and the public keys
\* are empty, whatever an earlier reload had loaded.
C29_MissingFileEmptiesTables ==
    \A p \in Tasks :
        task[p].op = "reload" /\ task[p].pc = "done" /\ task[p].cfg.file = "none" =>
            /\ bindings = EmptyMap
            /\ manifests = EmptyMap
            /\ public_keys = EmptyMap

\* C28: a resolve running while the binding table is reloaded answers as
\* before the reload or as after it: the binding of (a, GLOBAL, http://up),
\* which the table loaded at startup and every file reloaded hold with the
\* same URL, is never reported unresolved.
C28_ResolveNeverTorn ==
    \A p \in Tasks :
        /\ task[p].op = "resolve" /\ task[p].pc = "done"
        /\ task[p].tid = "a" /\ task[p].target = "http://up"
        => task[p].res = "http://10.0.0.1/"

\* C30: the health sweep never blocks other work: while check_all_health
\* is in progress no deploy is suspended waiting for the slot table's write
\* lock, and a retire can take it.
C30_SweepNeverBlocks ==
    ReadLocked =>
        /\ \A p \in Tasks : task[p].pc # "dk_write"
        /\ ENABLED (RetireLocked("a", "GREEN") /\ UNCHANGED <<snap, granted, resilience, egress>>)

\* C35: in every state of a circuit breaker, Closed implies fewer than
\* five counted failures, and Open or Half-Open implies at least five and a
\* recorded time of the last failure.
C35_BreakerStateMatchesCount ==
    \A alias \in DOMAIN breakers :
        LET b == breakers[alias]
        IN  /\ b.state = "Closed" => b.failure_count < FailureThreshold
            /\ b.state \in {"Open", "HalfOpen"} =>
                    b.failure_count >= FailureThreshold /\ b.last_failure # <<>>

\* A breaker that was closed again by a success after it had opened, and
\* has counted failures since.
C35_ClosedAgainAndCounting ==
    \E alias \in DOMAIN breakers :
        /\ breakers[alias].state = "Closed"
        /\ breakers[alias].failure_count \in 1 .. FailureThreshold - 1
        /\ breakers[alias].last_failure # <<>>
        /\ breakers[alias].last_failure[1] > CooldownSeconds * 1000

\* C36: a report_failure that finds the breaker Half-Open opens it again;
\* from then on no call on the alias is admitted before 30 s have passed
\* since that failure; and a Half-Open breaker closes only on a
\* report_success.
C36_HalfOpenFailureReopens ==
    [][\A p \in Tasks :
        LET alias == task[p].alias
            b     == BreakerEntry(breakers, alias)
            b2    == BreakerEntry(breakers', alias)
        IN  /\ task[p].pc = "hc_wait" /\ task'[p].pc = "done" /\ b.state = "HalfOpen"
                => IF task'[p].resp = "2xx"
                   THEN b2.state = "Closed"
                   ELSE b2.state = "Open" /\ b2.last_failure = <<now>>
            /\ task[p].pc = "hc_gate" /\ task'[p].pc = "hc_send" /\ alias \in DOMAIN granted
                => now - granted[alias][1] >= CooldownSeconds * 1000
            /\ b.state = "HalfOpen" /\ b2.state = "Closed"
                => \E q \in Tasks : /\ task[q].pc = "hc_wait" /\ task'[q].pc = "done"
                                    /\ task'[q].resp = "2xx"
    ]_vars

\* C39: a retire changes nothing but the slot it names, and the tenant's
\* key when that slot was its last: every other slot, the perspective
\* table, the audit log, the statuses, the bindings, the breakers and the
\* buckets are as before; retiring an absent slot changes nothing; and an
\* invocation whose perspective names a retired slot ends slot-not-found.
C39_RetireChangesOnlyItsSlot ==
    [][/\ task' = task =>
            /\ UNCHANGED <<perspective, audit_log, statuses, resilience, egress>>
            /\ \E tid \in TenantIds : \E env \in {"GREEN", "BLUE", "RED"} :
                /\ SlotKeys(tenants') = SlotKeys(tenants) \ {<<tid, env>>}
                /\ \A k \in SlotKeys(tenants') :
                        SlotOf(tenants', k[1], k[2]) = SlotOf(tenants, k[1], k[2])
                /\ DOMAIN tenants' = {k[1] : k \in SlotKeys(tenants')}
       /\ \A p \in Tasks :
            /\ task[p].pc = "rq_get" /\ task'[p] # task[p]
            /\ SlotOf(tenants, task[p].tid, task[p].env) = NoInstance
            => task'[p].pc = "done" /\ task'[p].res = "err_slot"
    ]_vars

\* The BLUE slot has just been retired while the perspective names it:
\* the GREEN slot is as it was and the perspective still says BLUE.
C39_PerspectiveNamesRetiredSlot ==
    /\ "a" \in DOMAIN perspective /\ perspective["a"] = "BLUE"
    /\ SlotOf(snap.tenants, "a", "BLUE") # NoInstance
    /\ SlotOf(tenants, "a", "BLUE") = NoInstance
    /\ SlotOf(tenants, "a", "GREEN") # NoInstance
    /\ SlotOf(tenants, "a", "GREEN") = SlotOf(snap.tenants, "a", "GREEN")
    /\ perspective = snap.perspective

\* C40: after a reload of a readable session.json has completed, no
\* reloaded table holds an entry that the file does not: the logical
\* manifest, also when the file has no manifests section, and the public
\* keys hold entries of the file only.
C40_RemovedEntriesGone ==
    \A p \in Tasks :
        task[p].op = "reload" /\ task[p].pc = "done" /\ task[p].cfg.file = "ok" =>
            /\ DOMAIN manifests \subseteq DOMAIN task[p].cfg.manifests
            /\ DOMAIN public_keys \subseteq DOMAIN task[p].cfg.public_keys

\* C34: while session.json, which holds tenant a's public key as the
\* security store did before, is being reloaded, no request for tenant a
\* gets past the guards to the guest without a token valid for that key.
C34_NeverUnauthenticatedDuringReload ==
    \A p \in Tasks :
        /\ task[p].op = "call" /\ task[p].tid = "a"
        /\ task[p].pc \in {"rq_persp", "rq_get", "rq_run"}
        => ValidBearer(task[p].auth, KeyedFile.public_keys["a"])

\* C38: with tenant a's upstream rate R (and capacity C = R) configured in
\* a session.json that does not change, the requests of a admitted by the
\* upstream limiter in any window of duration T number at most
\* ceil(R * T + C), however requests and reloads interleave.
C38_ReloadGrantsNoExtraAdmissions ==
    LET g == Grants("a")
        R == RateFile.upstream["a"]
    IN  \A i, j \in 1 .. Len(g) :
            i <= j => j - i + 1 <= WindowBound(R, R, g[j] - g[i])

\* C37: the downstream bucket and the breaker that gate an http_call are
\* those of the alias name, whichever tenant calls and whatever URL the
\* tenant binds the alias to: every call draws its token from the alias's
\* bucket, every final failure counts on the alias's breaker, and a call is
\* refused exactly when that bucket or that breaker refuses.
C37_GuardsSharedAcrossTenants ==
    [][\A p \in Tasks :
        LET t    == task[p]
            t2   == task'[p]
            c    == CheckBucket(downstream_buckets, t.alias, DefaultDownstreamRate, now)
            b    == BreakerEntry(breakers, t.alias)
        IN  t.op = "http_call" /\ t2 # t =>
              /\ t.pc = "hc_rate" =>
                    /\ downstream_buckets' = Put(downstream_buckets, t.alias, c.bucket)
                    /\ (t2.pc = "hc_gate") = c.ok
                    /\ (t2.res = "Error: Rate Limit Exceeded (429)") = ~c.ok
              /\ t.pc = "hc_gate" =>
                    /\ (t2.pc = "hc_send") = ShouldAllow(b, now).ok
                    /\ (t2.res = "Error: Circuit Breaker Open") = ~ShouldAllow(b, now).ok
              /\ t.pc = "hc_wait" /\ t2.pc = "done" /\ t2.resp # "2xx" =>
                    BreakerEntry(breakers', t.alias).failure_count = b.failure_count + 1
              /\ DOMAIN breakers' \cup DOMAIN downstream_buckets' \subseteq {t.alias}
    ]_vars

\* Tenant e, whose own upstream never failed, is refused by the breaker
\* that tenant a's failed calls opened, without a request being sent.
C37_RefusedForAnothersFailures ==
    /\ bindings[<<"a", "GLOBAL", "http://up">>] # bindings[<<"e", "GLOBAL", "http://up">>]
    /\ \E p \in Tasks :
        /\ task[p].op = "http_call" /\ task[p].tid = "e" /\ task[p].pc = "done"
        /\ task[p].res = "Error: Circuit Breaker Open" /\ task[p].sent = 0
    /\ breakers["http://up"].state = "Open"

\* C31: every invocation enters the guest with a store of its own: at
\* entry the fuel is exactly 1,000,000 and the memory holds the module's
\* data and this call's input only, whatever the other tasks are running or
\* have run, for this tenant or another.
C31_FreshStoreAtEntry ==
    [][\A p \in Tasks :
        LET t  == task[p]
            t2 == task'[p]
        IN  /\ t.pc = "br_store" /\ t2 # t =>
                    /\ t2.store.fuel = FuelPerCall
                    /\ t2.store.data = t.inst.module /\ t2.store.input = ""
                    /\ ~t2.store.dirty
            /\ t.pc = "br_find" /\ t2.pc = "br_run" =>
                    /\ t2.store.fuel = FuelPerCall
                    /\ t2.store.data = t.inst.module
                    /\ t2.store.input \in {"", t.query}
                    /\ ~t2.store.dirty
            /\ \A q \in Tasks \ {p} : t2 # t => task'[q].store = task[q].store
    ]_vars

\* An invocation is at its entry with a fresh store while another
\* invocation of the same tenant and module has burnt fuel and written its
\* memory.
C31_FreshBesideUsed ==
    \E p, q \in Tasks :
        /\ p # q /\ task[p].tid = task[q].tid /\ task[p].inst = task[q].inst
        /\ task[p].pc = "br_run" /\ task[p].store.fuel = FuelPerCall /\ ~task[p].store.dirty
        /\ task[q].pc = "br_run" /\ task[q].store.fuel < FuelPerCall /\ task[q].store.dirty

\* The first exported name among those derived from func_name:
\* __axiom_call_<name>, the same with dashes replaced, the bare name, the
\* bare name with dashes replaced.
FindExportDerived(exports, func_name) ==
    LET call  == FirstExported(<<CallName(func_name), CallName(Underscored(func_name))>>,
                               exports)
        plain == FirstExported(<<func_name, Underscored(func_name)>>, exports)
    IN  IF call # "" THEN [kind |-> "call", name |-> call]
        ELSE [kind |-> "plain", name |-> plain]

\* C32: when the module exports none of the names derived from the
\* requested function name, the call fails with the error naming that
\* function and no export runs in its place; otherwise the first derived
\* name that is exported runs.
C32_UnknownFunctionFails ==
    [][\A p \in Tasks :
        LET t  == task[p]
            t2 == task'[p]
            d  == FindExportDerived(Exports(t.inst.module), t.func)
        IN  t.op = "call" /\ t.pc = "br_find" /\ t2 # t =>
                IF d.name = ""
                THEN t2.pc = "done" /\ t2.res = "err_not_found" /\ t2.func = t.func
                     /\ t2.exec = ""
                ELSE t2.pc = "br_run" /\ t2.exec = d.name
    ]_vars


====
